---- MODULE Spec2Model ----
(***************************************************************************)
(* DTaaS transfer engine and task lifecycle controller.                    *)
(*                                                                         *)
(* One task is modelled together with its persisted records (task status,  *)
(* TaskExecution and TableExecution rows, the CDC cursor map), the Celery  *)
(* queue and worker processes of backend/celery_tasks.py, the control      *)
(* endpoint of backend/routers/tasks.py and the table pipelines of         *)
(* backend/services/transfer_service.py.  The source database and the      *)
(* destination are the environment: row counts, the change log with its    *)
(* LSNs, injected connector errors, and what has been written.             *)
(***************************************************************************)
EXTENDS Integers, Sequences, FiniteSets, TLC

(***************************************************************************)
(* Bounds of the model.                                                    *)
(***************************************************************************)
MaxControl == 3        \* control requests the caller issues in one behaviour
MaxExecutions == 3     \* TaskExecution rows created in one behaviour
MaxRows == 2           \* rows a source table can hold
MaxRetries == 1        \* largest task.max_retries explored
MaxFaults == 2         \* connector errors injected in one behaviour
MaxLsn == 3            \* largest LSN the source change log reaches

(***************************************************************************)
(* Names.                                                                  *)
(***************************************************************************)
Workers == {"w1", "w2"}     \* Celery worker processes

DboA == [schema |-> "dbo", name |-> "A"]
DboB == [schema |-> "dbo", name |-> "B"]
DboC == [schema |-> "dbo", name |-> "C"]
SalesA == [schema |-> "sales", name |-> "A"]
TableNames == {DboA, DboB, DboC, SalesA}
BaseNames == {"A", "B", "C"}

MsgTypes == {"start_task", "stop_task", "pause_task", "resume_task",
             "execute_task", "execute_cdc_polling"}

TaskStatuses == {"created", "running", "completed", "failed", "stopped", "paused"}

\* Exceptions carry their Python type and the text str(e) starts from.
NoExc == [type |-> "none", msg |-> "none"]
StoppedMsg == "stopped by user"
Interrupted == [type |-> "InterruptedError", msg |-> StoppedMsg]
Error(m) == [type |-> "Exception", msg |-> m]

\* a table name as task.source_tables holds it
FullName(t) == t.schema \o "." \o t.name

\* f"Table {table_name} failed after {retry_count} attempts: {str(e)}"
TableFailedAfter(t, n, m) ==
    "Table " \o FullName(t) \o " failed after " \o ToString(n) \o " attempts: " \o m

\* f"Table {table_name} failed: {result.get('error')}"
TableFailed(t, m) == "Table " \o FullName(t) \o " failed: " \o m

VARIABLES
    cfg,        \* the task's configuration columns (fixed during a behaviour)
    status,     \* task.status
    full_load_completed_tables,  \* task.full_load_completed_tables (its keys)
    cdc_enabled_tables,          \* task.cdc_enabled_tables: "<name>_last_lsn" -> LSN, 0 = None
    exec,       \* TaskExecution rows, by id
    texec,      \* TableExecution rows, by id
    queue,      \* Celery messages not yet taken by a worker, by task name
    wk,         \* per worker process: the handler it runs and its local variables
    thr,        \* per table: the pool thread of the parallel full load
    ctl,        \* control requests the caller may still issue
    srcRows,    \* source: current row count of each table
    srcMut,     \* source: row inserts/deletes still to happen
    faults,     \* connector errors still to be injected
    dest,       \* destination: rows appended per destination table
    cleanups,   \* destination: cleanup_partial_files calls per table
    maxLsn,     \* source: sys.fn_cdc_get_max_lsn(), 0 = NULL
    changes,    \* source: committed changes, [table, lsn]
    delivered,  \* destination: changes written by CDC polls
    resolver,   \* a VariableResolver instance: _cache, _global_vars, its context
    now,        \* the clock datetime.utcnow() reads
    dbrow,      \* what the queried database answers to a db_query variable
    sessionOk,  \* whether the application database session answers
    uuids,      \* uuid4() values handed out so far
    resolved,   \* per template: what the last resolve() of it returned
    dbq,        \* a db_query variable's config, and the query and parameters built from it
    s3obj,      \* the last S3Connector.write_data call: its template, format and object key
    meta,       \* a table's source schema, the columns its destination records, the
                \* destination's kind and the task's drift setting
    sw          \* the StandaloneWorker: its active_tasks, its polling loop, its task
                \* threads and the status column of the tasks it polls

vars == <<cfg, status, full_load_completed_tables, cdc_enabled_tables, exec, texec,
          queue, wk, thr, ctl, srcRows, srcMut, faults, dest, cleanups, maxLsn,
          changes, delivered, resolver, now, dbrow, sessionOk, uuids, resolved, dbq,
          s3obj, meta, sw>>

dbVars == <<status, full_load_completed_tables, cdc_enabled_tables, exec, texec>>
srcVars == <<srcRows, srcMut, maxLsn, changes>>
dstVars == <<dest, cleanups, delivered>>
\* the state of the variable resolver and of what it reads
resolverVars == <<resolver, now, dbrow, sessionOk, uuids, resolved>>
\* the inputs and results of the functions examined on their own
fnVars == <<dbq, s3obj, meta, sw>>
libVars == <<resolverVars, fnVars>>

(***************************************************************************)
(* Helpers.                                                                *)
(***************************************************************************)
Min(a, b) == IF a < b THEN a ELSE b
Max(a, b) == IF a > b THEN a ELSE b

Enq(q, m) == [q EXCEPT ![m] = @ + 1]
Deq(q, m) == [q EXCEPT ![m] = @ - 1]
EmptyQueue == [m \in MsgTypes |-> 0]

Range(s) == {s[i] : i \in 1..Len(s)}

\* table_name.split('.', 1): the part after the schema
BaseName(t) == t.name

IdleWorker ==
    [pc |-> "idle", kind |-> "none", eid |-> 0, ti |-> 0, te |-> 0,
     retry_count |-> 0, total_rows |-> 0, offset |-> 0, rows_transferred |-> 0,
     total_rows_transferred |-> 0, completed_tables |-> 0, batch |-> 0,
     \* read_data and write_data calls that returned in the current attempt
     reads |-> 0, writes |-> 0,
     \* the executor's source and destination connectors are connected
     connected |-> FALSE,
     exc |-> NoExc, revoked |-> FALSE,
     cdc |-> [k \in BaseNames |-> 0], new_lsn |-> 0, got |-> {}, total_changes |-> 0,
     \* per table: the new cursor of this poll once the table's write step has
     \* completed, -1 before
     adv |-> [t \in TableNames |-> -1],
     \* the tables for which read_cdc_changes returned an empty batch in this poll
     nochg |-> {}]

IdleThread ==
    [pc |-> "none", te |-> 0, total_rows |-> 0, offset |-> 0, rows_transferred |-> 0,
     batch |-> 0, result |-> "none", error |-> "none", seen |-> FALSE,
     \* the thread's source and destination connectors are connected
     connected |-> FALSE]

\* where the main thread of a parallel full load can be
ParPcs == {"par_wait", "par_cb", "par_cb_write", "par_exit"}

\* A worker process that holds an execute_task / execute_cdc_polling run
InFlight(w) == wk[w].kind \in {"execute_task", "execute_cdc_polling"}

FaultChoice == IF faults > 0 THEN {FALSE, TRUE} ELSE {FALSE}

(***************************************************************************)
(* services/variable_resolver.py VariableResolver and                      *)
(* services/inline_variable_parser.py ContextVariables.  A string is a     *)
(* sequence of pieces, its concatenation; "" is the empty sequence.  A     *)
(* template is a sequence of literal pieces and $name tokens; no name used *)
(* here is a prefix of another and no value contains a "$".  Every "/" and *)
(* every "." of a string is a piece of its own.                            *)
(***************************************************************************)
MaxClock == 1      \* ticks of the clock in one behaviour
MaxUuids == 3      \* uuid4() calls in one behaviour
TicksPerDay == 2

Lit(s) == [tok |-> FALSE, s |-> s]
Tok(n) == [tok |-> TRUE, s |-> n]

VarNames == {"timestamp", "uuid", "date", "tableName", "Timestamp", "tenant", "env",
             "path", "badtype", "missing"}

\* inline definitions handed to the resolver
inline_vars == [tenant |-> [type |-> "db_query"]]

\* the active rows of models.GlobalVariable
GlobalVariable ==
    [env |-> [type |-> "static", value |-> <<"prod">>],
     path |-> [type |-> "expression",
               expression |-> <<Tok("env"), Lit("/"), Tok("tenant")>>],
     badtype |-> [type |-> "sql"]]

TemplateIds == {"scenario", "tenant", "path", "missing", "badtype", "table",
                "Timestamp", "date", "uuid"}

Template(id) ==
    CASE id = "scenario" -> <<Lit("tenants"), Lit("/"), Tok("tenant"), Lit("/"),
                              Tok("tableName"), Lit("/"), Lit("data_"), Tok("timestamp")>>
      [] id = "tenant" -> <<Tok("tenant")>>
      [] id = "path" -> <<Lit("exports"), Lit("/"), Tok("path")>>
      [] id = "missing" -> <<Tok("missing")>>
      [] id = "badtype" -> <<Tok("badtype")>>
      [] id = "table" -> <<Tok("tableName")>>
      [] id = "Timestamp" -> <<Tok("Timestamp")>>
      [] id = "date" -> <<Lit("day="), Tok("date")>>
      [] id = "uuid" -> <<Tok("uuid"), Lit("-"), Tok("uuid")>>
      [] id = "file" -> <<Lit("exports"), Lit("/"), Tok("tableName"), Lit("."), Lit("csv")>>
      [] id = "dotted" -> <<Lit("exports"), Lit("/"), Lit("v1"), Lit("."), Tok("date")>>

Unknown == <<"unknown">>
PyNone == <<"None">>       \* str(None)

\* datetime.utcnow().strftime("%Y%m%d") and strftime("%Y%m%d_%H%M%S")
Date(n) == <<"2024030", ToString(1 + (n \div TicksPerDay))>>
Timestamp(n) == Date(n) \o <<"_", IF n % TicksPerDay = 0 THEN "000000" ELSE "120000">>
\* str(uuid.uuid4()): the k-th value handed out
Uuid(k) == <<"uuid", ToString(k)>>

\* an entry of a dict: absent, or present with a value
Absent == [hit |-> FALSE, v |-> <<>>]
Hit(v) == [hit |-> TRUE, v |-> v]

\* VariableResolver.__init__: empty cache, global variables not loaded; calls
\* counts the resolve() calls made on the instance
NewResolver(table_name) ==
    [cache |-> [n \in VarNames |-> Absent], loaded |-> FALSE, global_vars |-> {},
     table_name |-> table_name, calls |-> 0]

\* no template has been resolved
NoneResolved == [t \in TemplateIds |-> [kind |-> "none", v |-> <<>>, n |-> 0]]

\* a new resolver at the start of the clock, nothing resolved yet
NewResolverOnly ==
    /\ resolver = NewResolver(<<"Orders">>)
    /\ now = 0
    /\ dbrow = "42"
    /\ sessionOk = TRUE
    /\ uuids = 0
    /\ resolved = NoneResolved

\* no db_query variable is being resolved
NoQuery ==
    [schema |-> <<>>, table |-> <<>>, column |-> <<>>, where_conditions |-> <<>>,
     built |-> FALSE, query |-> <<>>, params |-> <<>>]

\* nothing has been written through the S3 connector
NoObject ==
    [written |-> FALSE, template |-> "none", file_format |-> "none",
     resolved_path |-> <<>>, key |-> <<>>]

ColumnNames == {"id", "name", "email"}
NoColumns == [c \in ColumnNames |-> "none"]

\* no table is being prepared
NoMeta ==
    [source_schema |-> NoColumns, dest_schema |-> NoColumns, connector |-> "s3",
     handle_schema_drift |-> FALSE, templated |-> FALSE,
     \* the path that prepared the table last, and the destination's columns
     \* before it did
     prepared |-> "none", before |-> NoColumns]

\* the resolver is not in use
NoLibraryCall ==
    /\ NewResolverOnly
    /\ dbq = NoQuery
    /\ s3obj = NoObject
    /\ meta = NoMeta

\* str.lower() of a variable name
Lower(n) ==
    CASE n = "Timestamp" -> "timestamp"
      [] n = "tableName" -> "tablename"
      [] n = "sourceTableName" -> "sourcetablename"
      [] n = "sourceDatabaseName" -> "sourcedatabasename"
      [] n = "taskName" -> "taskname"
      [] n = "taskId" -> "taskid"
      [] n = "connectorName" -> "connectorname"
      [] OTHER -> n

CONTEXT_VARS == {"sourceDatabaseName", "tableName", "sourceTableName", "timestamp",
                 "date", "uuid", "taskName", "taskId", "connectorName"}

is_context_variable(var_name) == \E k \in CONTEXT_VARS : Lower(k) = Lower(var_name)

\* ContextVariables.get_context_value: None for timestamp, date and uuid
get_context_value(var_name, st) ==
    IF Lower(var_name) \in {"tablename", "sourcetablename"}
    THEN [none |-> FALSE, v |-> st.table_name]
    ELSE IF Lower(var_name) \in {"sourcedatabasename", "taskname", "taskid",
                                 "connectorname"}
    THEN [none |-> FALSE, v |-> <<>>]
    ELSE [none |-> TRUE, v |-> <<>>]

\* what a call returns: the value, the resolver and the uuid counter after
\* it, and whether it raised instead of returning
Ret(v, st, u) == [v |-> v, st |-> st, u |-> u, raised |-> FALSE]
Raise(st, u) == [v |-> <<>>, st |-> st, u |-> u, raised |-> TRUE]

\* except Exception: return "unknown"
Caught(r) == IF r.raised THEN Ret(Unknown, r.st, r.u) ELSE r

\* _resolve_db_query: str(result[0]) of the row fetched, "unknown" when the
\* query raises or returns no row
resolve_db_query ==
    CASE dbrow = "error" -> Unknown
      [] dbrow = "norow" -> Unknown
      [] dbrow = "null" -> PyNone
      [] OTHER -> <<dbrow>>

\* join of the pieces a resolved template consists of
RECURSIVE Render(_, _, _)
Render(template, used, i) ==
    IF i > Len(template) THEN <<>>
    ELSE (IF template[i].tok THEN used[template[i].s].v ELSE <<template[i].s>>)
         \o Render(template, used, i + 1)

\* Cacheable as it would be if the values of query variables were not kept
CacheableExceptQueries(var_name) == var_name \notin {"uuid", "timestamp", "tenant"}

\* if var_name not in ['uuid', 'timestamp']: the value is cached
Cacheable(var_name) == var_name \notin {"uuid", "timestamp"}

RECURSIVE ResolveFrom(_, _, _, _, _), resolve_variable(_, _, _)

\* VariableResolver.resolve(template)
resolve(template, st, u) ==
    ResolveFrom(template, 1, st, u, [n \in VarNames |-> Absent])

\* the loop of resolve over re.findall(r'\$(\w+)', template), from the i-th
\* piece on; used holds the value each placeholder was replaced by
ResolveFrom(template, i, st, u, used) ==
    IF i > Len(template) THEN Ret(Render(template, used, 1), st, u)
    ELSE IF ~template[i].tok THEN ResolveFrom(template, i + 1, st, u, used)
    ELSE LET var_name == template[i].s
             r == IF st.cache[var_name].hit
                  THEN Ret(st.cache[var_name].v, st, u)
                  ELSE resolve_variable(var_name, st, u)
         IN  IF r.raised THEN r
             ELSE LET st2 == IF ~st.cache[var_name].hit /\ Cacheable(var_name)
                             THEN [r.st EXCEPT !.cache[var_name] = Hit(r.v)]
                             ELSE r.st
                      used2 == IF used[var_name].hit THEN used
                               ELSE [used EXCEPT ![var_name] = Hit(r.v)]
                  IN  ResolveFrom(template, i + 1, st2, r.u, used2)

\* the dispatch on var_config['type'] of _resolve_inline_variable and
\* _resolve_global_variable, inside their try
resolve_by_type(var_config, st, u) ==
    IF var_config.type = "static" THEN Ret(var_config.value, st, u)
    ELSE IF var_config.type = "db_query" THEN Ret(resolve_db_query, st, u)
    ELSE IF var_config.type = "expression"
    THEN Caught(resolve(var_config.expression, st, u))
    ELSE Ret(Unknown, st, u)

\* _load_global_variables: the dict is emptied, then filled from the query
load_global_variables(st) ==
    [st EXCEPT !.loaded = TRUE,
               !.global_vars = IF sessionOk THEN DOMAIN GlobalVariable ELSE {}]

\* _resolve_global_variable: the lazy load is outside its try
resolve_global_variable(var_name, st, u) ==
    IF ~st.loaded /\ ~sessionOk THEN Raise(load_global_variables(st), u)
    ELSE LET st1 == IF st.loaded THEN st ELSE load_global_variables(st)
         IN  IF var_name \notin st1.global_vars THEN Ret(Unknown, st1, u)
             ELSE resolve_by_type(GlobalVariable[var_name], st1, u)

\* _resolve_variable: an if/elif chain; a context variable whose value is
\* None leaves the chain without a return statement
resolve_variable(var_name, st, u) ==
    IF var_name = "timestamp" THEN Ret(Timestamp(now), st, u)
    ELSE IF var_name = "date" THEN Ret(Date(now), st, u)
    ELSE IF var_name = "uuid" THEN Ret(Uuid(u + 1), st, u + 1)
    ELSE IF is_context_variable(var_name)
    THEN LET value == get_context_value(var_name, st)
         IN  IF ~value.none THEN Ret(value.v, st, u) ELSE Ret(PyNone, st, u)
    ELSE IF var_name \in DOMAIN inline_vars
    THEN Caught(resolve_by_type(inline_vars[var_name], st, u))
    ELSE resolve_global_variable(var_name, st, u)

(***************************************************************************)
(* VariableResolver._build_safe_query and _build_query_params.  Identifiers *)
(* and values are sequences of characters; the query text is a sequence of *)
(* pieces, each a fragment the code writes or one character.               *)
(***************************************************************************)
WordChars == {"a", "_", "1"}      \* characters \w matches

\* escape_identifier as it would be if the identifier were only bracketed
escape_identifier_unstripped(identifier) == <<"[">> \o identifier \o <<"]">>

\* _escape_identifier: re.sub(r'[^\w]', '', identifier), in square brackets
escape_identifier(identifier) ==
    <<"[">> \o SelectSeq(identifier, LAMBDA c : c \in WordChars) \o <<"]">>

allowed_operators == {"=", "!=", ">", "<", ">=", "<=", "LIKE", "IN"}

\* len(value.split(","))
Items(value) == 1 + Cardinality({i \in 1..Len(value) : value[i] = ","})

\* ",".join(["?" for _ in values])
RECURSIVE Placeholders(_)
Placeholders(n) == IF n <= 1 THEN <<"?">> ELSE <<"?", ",">> \o Placeholders(n - 1)

\* the clause appended to where_clauses for one condition
where_clause(condition) ==
    LET operator == IF condition.operator \notin allowed_operators THEN "="
                    ELSE condition.operator
        field_safe == escape_identifier(condition.field)
    IN  IF operator = "IN"
        THEN field_safe \o <<" IN (">> \o Placeholders(Items(condition.value)) \o <<")">>
        ELSE field_safe \o <<" ", operator, " ", "?">>

\* " AND ".join(where_clauses), from the i-th condition on
RECURSIVE JoinClauses(_, _)
JoinClauses(where_conditions, i) ==
    IF i > Len(where_conditions) THEN <<>>
    ELSE (IF i > 1 THEN <<" AND ">> ELSE <<>>)
         \o where_clause(where_conditions[i]) \o JoinClauses(where_conditions, i + 1)

build_safe_query(schema, table, column, where_conditions) ==
    <<"SELECT ">> \o escape_identifier(column) \o <<" FROM ">>
       \o escape_identifier(schema) \o <<".">> \o escape_identifier(table)
       \o (IF where_conditions # <<>>
           THEN <<" WHERE ">> \o JoinClauses(where_conditions, 1) ELSE <<>>)

\* value.split(","), from the i-th character on; item is the item begun
RECURSIVE Split(_, _, _)
Split(value, i, item) ==
    IF i > Len(value) THEN <<item>>
    ELSE IF value[i] = "," THEN <<item>> \o Split(value, i + 1, <<>>)
    ELSE Split(value, i + 1, Append(item, value[i]))

\* the global variable a WHERE value may name, a comma-separated list, and
\* the name of the table being transferred
WhereListVariable == <<"1", ",", "2">>
WhereTableName == <<"a">>

\* _resolve_where_variable for a value "$name": the built-in table name, a
\* global variable, or "unknown"
resolve_where_variable(var_placeholder) ==
    LET var_name == Tail(var_placeholder)
    IN  IF var_name \in {<<"tableName">>, <<"sourceTableName">>} THEN WhereTableName
        ELSE IF var_name = <<"ids">> THEN WhereListVariable
        ELSE <<"unknown">>

\* the value of a condition as _build_query_params binds it
param_value(value) ==
    IF value # <<>> /\ value[1] = "$" THEN resolve_where_variable(value) ELSE value

\* _build_query_params, from the i-th condition on
RECURSIVE build_query_params(_, _)
build_query_params(where_conditions, i) ==
    IF i > Len(where_conditions) THEN <<>>
    ELSE (IF where_conditions[i].operator = "IN"
          THEN Split(param_value(where_conditions[i].value), 1, <<>>)
          ELSE <<param_value(where_conditions[i].value)>>)
         \o build_query_params(where_conditions, i + 1)

(***************************************************************************)
(* TaskService: the store.                                                 *)
(***************************************************************************)
\* TaskService.create_execution: a new row, status "pending"
NewExecution(type) ==
    [type |-> type, status |-> "pending", error_message |-> "none",
     total_rows |-> 0, processed_rows |-> 0]

\* models.TableExecution(...) as the pipelines create it
NewTableExecution(eid, name, total, retry) ==
    [eid |-> eid, table_name |-> name, total_rows |-> total, processed_rows |-> 0,
     failed_rows |-> 0, status |-> "running", retry_count |-> retry,
     error_message |-> "none"]

\* TaskService.update_task_status writes the status unconditionally
update_task_status(new) == status' = new

(***************************************************************************)
(* routers/tasks.py control_task: runs in the API process.                 *)
(***************************************************************************)
ControlStart ==
    /\ ctl > 0
    /\ ctl' = ctl - 1
    /\ status' = IF status = "stopped" THEN "created" ELSE status
    /\ queue' = Enq(queue, "start_task")
    /\ UNCHANGED <<cfg, full_load_completed_tables, cdc_enabled_tables, exec, texec,
                   wk, thr, srcVars, faults, dstVars>>
    /\ UNCHANGED libVars

ControlStop ==
    /\ ctl > 0
    /\ ctl' = ctl - 1
    /\ update_task_status("stopped")
    /\ queue' = Enq(queue, "stop_task")
    /\ UNCHANGED <<cfg, full_load_completed_tables, cdc_enabled_tables, exec, texec,
                   wk, thr, srcVars, faults, dstVars>>
    /\ UNCHANGED libVars

ControlPause ==
    /\ ctl > 0
    /\ ctl' = ctl - 1
    /\ queue' = Enq(queue, "pause_task")
    /\ UNCHANGED <<cfg, dbVars, wk, thr, srcVars, faults, dstVars>>
    /\ UNCHANGED libVars

ControlResume ==
    /\ ctl > 0
    /\ ctl' = ctl - 1
    /\ queue' = Enq(queue, "resume_task")
    /\ UNCHANGED <<cfg, dbVars, wk, thr, srcVars, faults, dstVars>>
    /\ UNCHANGED libVars

(***************************************************************************)
(* celery_tasks.py: the short handlers.  A message is taken by an idle     *)
(* worker process; these handlers run to completion in one step.           *)
(***************************************************************************)
Take(w, m) ==
    /\ wk[w].pc = "idle"
    /\ queue[m] > 0

\* What start_task / resume_task enqueue for the task's mode
StartDispatch(q) ==
    IF cfg.mode = "cdc" THEN Enq(q, "execute_cdc_polling")
    ELSE IF cfg.mode \in {"full_load", "full_load_then_cdc"} THEN Enq(q, "execute_task")
    ELSE q

StartTask(w) ==
    /\ Take(w, "start_task")
    /\ IF status = "stopped"
       THEN /\ queue' = Deq(queue, "start_task")
            /\ UNCHANGED status
       ELSE /\ update_task_status("running")
            /\ queue' = StartDispatch(Deq(queue, "start_task"))
    /\ UNCHANGED <<cfg, full_load_completed_tables, cdc_enabled_tables, exec, texec,
                   wk, thr, ctl, srcVars, faults, dstVars>>
    /\ UNCHANGED libVars

\* latest_execution: .order_by(started_at.desc()).first()
LatestExecution == Len(exec)

StopTask(w) ==
    /\ Take(w, "stop_task")
    /\ queue' = Deq(queue, "stop_task")
    /\ update_task_status("stopped")
    /\ texec' = [i \in 1..Len(texec) |->
                    IF texec[i].eid = LatestExecution /\ texec[i].status = "running"
                    THEN [texec[i] EXCEPT !.status = "stopped",
                                          !.error_message = StoppedMsg]
                    ELSE texec[i]]
       \* app.control.revoke(id, terminate=True, signal='SIGKILL') for the active
       \* Celery tasks of this task id; the handler is itself among them, so the
       \* revokes that go out are any subset of the runs in flight
    /\ \E S \in SUBSET {v \in Workers : InFlight(v)} :
          wk' = [v \in Workers |-> IF v \in S THEN [wk[v] EXCEPT !.revoked = TRUE]
                                   ELSE wk[v]]
    /\ UNCHANGED <<cfg, full_load_completed_tables, cdc_enabled_tables, exec,
                   thr, ctl, srcVars, faults, dstVars>>
    /\ UNCHANGED libVars

\* The SIGKILL of a revoked run reaches its process: no handler of it runs
Revoked(w) ==
    /\ wk[w].revoked
    /\ wk' = [wk EXCEPT ![w] = IdleWorker]
    /\ thr' = [t \in TableNames |-> IF wk[w].pc \in ParPcs
                                    THEN IdleThread ELSE thr[t]]
    /\ UNCHANGED <<cfg, dbVars, queue, ctl, srcVars, faults, dstVars>>
    /\ UNCHANGED libVars

PauseTask(w) ==
    /\ Take(w, "pause_task")
    /\ queue' = Deq(queue, "pause_task")
    /\ update_task_status("paused")
    /\ UNCHANGED <<cfg, full_load_completed_tables, cdc_enabled_tables, exec, texec,
                   wk, thr, ctl, srcVars, faults, dstVars>>
    /\ UNCHANGED libVars

ResumeDispatch(q) ==
    IF cfg.mode \in {"cdc", "full_load_then_cdc"} THEN Enq(q, "execute_cdc_polling")
    ELSE Enq(q, "execute_task")

\* ResumeTask as it would be without the check of the paused status
ResumeTaskUnchecked(w) ==
    /\ Take(w, "resume_task")
    /\ update_task_status("running")
    /\ queue' = ResumeDispatch(Deq(queue, "resume_task"))
    /\ UNCHANGED <<cfg, full_load_completed_tables, cdc_enabled_tables, exec, texec,
                   wk, thr, ctl, srcVars, faults, dstVars>>
    /\ UNCHANGED libVars

ResumeTask(w) ==
    /\ Take(w, "resume_task")
    /\ IF status # "paused"
       THEN /\ queue' = Deq(queue, "resume_task")
            /\ UNCHANGED status
       ELSE /\ update_task_status("running")
            /\ queue' = ResumeDispatch(Deq(queue, "resume_task"))
    /\ UNCHANGED <<cfg, full_load_completed_tables, cdc_enabled_tables, exec, texec,
                   wk, thr, ctl, srcVars, faults, dstVars>>
    /\ UNCHANGED libVars

(***************************************************************************)
(* celery_tasks.py execute_task.                                           *)
(***************************************************************************)
SourceTable(w) == cfg.source_tables[wk[w].ti]

\* tables_needing_full_load = [t for t in source_tables if t not in completed]
TablesNeedingFullLoad ==
    {t \in Range(cfg.source_tables) : t \notin full_load_completed_tables}

\* execute_task up to the call of the transfer service: the stale-message
\* check, the status safeguard, create_execution and the branch on task.mode
ExecuteTaskBegin(w) ==
    /\ Take(w, "execute_task")
    /\ IF status \notin {"created", "running"}
       THEN /\ queue' = Deq(queue, "execute_task")
            /\ UNCHANGED <<status, exec, wk>>
       ELSE /\ Len(exec) < MaxExecutions
            /\ update_task_status("running")
            /\ exec' = Append(exec, NewExecution(cfg.mode))
            /\ LET me == [IdleWorker EXCEPT !.kind = "execute_task",
                                            !.eid = Len(exec) + 1]
               IN  CASE cfg.mode = "full_load" ->
                          \* TransferService.execute_full_load
                          /\ wk' = [wk EXCEPT ![w] =
                                [me EXCEPT !.pc = IF cfg.parallel_tables > 1
                                                  THEN "par_submit" ELSE "seq_table",
                                           !.ti = 1,
                                           \* the sequential path connects
                                           \* before its table loop
                                           !.connected = (cfg.parallel_tables = 1)]]
                          /\ queue' = Deq(queue, "execute_task")
                    [] cfg.mode = "cdc" ->
                          /\ wk' = [wk EXCEPT ![w] =
                                [me EXCEPT !.pc = "cdc_table", !.ti = 1,
                                           !.connected = TRUE,
                                           !.cdc = cdc_enabled_tables]]
                          /\ queue' = Deq(queue, "execute_task")
                    [] cfg.mode = "full_load_then_cdc" ->
                          IF TablesNeedingFullLoad # {}
                          THEN \* execute_full_load() takes no tables_to_load
                               /\ wk' = [wk EXCEPT ![w] =
                                     [me EXCEPT !.pc = "et_failed",
                                                !.exc = Error("TypeError")]]
                               /\ queue' = Deq(queue, "execute_task")
                          ELSE \* polling is started, then result is unbound
                               /\ wk' = [wk EXCEPT ![w] =
                                     [me EXCEPT !.pc = "et_failed",
                                                !.exc = Error("UnboundLocalError")]]
                               /\ queue' =
                                     IF cfg.schedule_type \in {"continuous", "interval"}
                                     THEN Enq(Deq(queue, "execute_task"),
                                              "execute_cdc_polling")
                                     ELSE Deq(queue, "execute_task")
    /\ UNCHANGED <<cfg, full_load_completed_tables, cdc_enabled_tables, texec,
                   thr, ctl, srcVars, faults, dstVars>>
    /\ UNCHANGED libVars

\* the success tail: update_execution(success), status completed, reschedule
ExecuteTaskSuccess(w) ==
    /\ wk[w].pc = "et_success"
    /\ exec' = [exec EXCEPT ![wk[w].eid] =
                   [@ EXCEPT !.status = "success",
                             !.total_rows = IF cfg.mode = "cdc"
                                            THEN wk[w].total_changes
                                            ELSE wk[w].total_rows_transferred,
                             !.processed_rows = IF cfg.mode = "cdc"
                                                THEN wk[w].total_changes
                                                ELSE wk[w].total_rows_transferred]]
    /\ update_task_status("completed")
    /\ queue' = IF cfg.schedule_type = "continuous"
                THEN Enq(queue, "execute_task") ELSE queue
    /\ wk' = [wk EXCEPT ![w] = IdleWorker]
    /\ UNCHANGED <<cfg, full_load_completed_tables, cdc_enabled_tables, texec,
                   thr, ctl, srcVars, faults, dstVars>>
    /\ UNCHANGED libVars

\* except InterruptedError: the execution is stopped, the task status is left
ExecuteTaskInterrupted(w) ==
    /\ wk[w].pc = "et_interrupted"
    /\ exec' = [exec EXCEPT ![wk[w].eid] =
                   [@ EXCEPT !.status = "stopped", !.error_message = StoppedMsg]]
    /\ wk' = [wk EXCEPT ![w] = IdleWorker]
    /\ UNCHANGED <<cfg, status, full_load_completed_tables, cdc_enabled_tables, texec,
                   queue, thr, ctl, srcVars, faults, dstVars>>
    /\ UNCHANGED libVars

\* except Exception: the execution and the task are failed with str(e)
ExecuteTaskFailed(w) ==
    /\ wk[w].pc = "et_failed"
    /\ exec' = [exec EXCEPT ![wk[w].eid] =
                   [@ EXCEPT !.status = "failed", !.error_message = wk[w].exc.msg]]
    /\ update_task_status("failed")
    /\ wk' = [wk EXCEPT ![w] = IdleWorker]
    /\ UNCHANGED <<cfg, full_load_completed_tables, cdc_enabled_tables, texec,
                   queue, thr, ctl, srcVars, faults, dstVars>>
    /\ UNCHANGED libVars

(***************************************************************************)
(* TransferService._execute_full_load_sequential.                          *)
(***************************************************************************)
\* max_retries = task.max_retries if task.retry_enabled else 0
max_retries == IF cfg.retry_enabled THEN cfg.max_retries ELSE 0

\* an exception raised inside the per-attempt try block
RaiseInAttempt(w, e) == [wk[w] EXCEPT !.pc = "seq_except", !.exc = e]

\* for table_name in task.source_tables: the stop check before the table,
\* then the per-table locals; after the last table the result is returned
SeqTable(w) ==
    /\ wk[w].pc = "seq_table"
    /\ wk' = [wk EXCEPT ![w] =
          IF wk[w].ti > Len(cfg.source_tables)
          THEN [@ EXCEPT !.pc = "et_success", !.connected = FALSE]  \* disconnect()
          ELSE IF status = "stopped"
          THEN [@ EXCEPT !.pc = "et_interrupted", !.exc = Interrupted]
          ELSE [@ EXCEPT !.pc = "seq_attempt", !.te = 0, !.retry_count = 0]]
    /\ UNCHANGED <<cfg, dbVars, queue, thr, ctl, srcVars, faults, dstVars>>
    /\ UNCHANGED libVars

\* the head of an attempt: stop check, then on a retry cleanup and the sleep
SeqAttempt(w) ==
    /\ wk[w].pc = "seq_attempt"
    /\ IF status = "stopped"
       THEN /\ wk' = [wk EXCEPT ![w] = RaiseInAttempt(w, Interrupted)]
            /\ UNCHANGED <<dest, cleanups>>
       ELSE /\ wk' = [wk EXCEPT ![w].pc = "seq_prepare"]
            /\ IF wk[w].retry_count > 0 /\ cfg.cleanup_on_retry /\ cfg.dest_has_cleanup
               THEN /\ cleanups' = [cleanups EXCEPT ![SourceTable(w)] = @ + 1]
                    /\ dest' = [dest EXCEPT ![SourceTable(w)] = 0]
               ELSE UNCHANGED <<dest, cleanups>>
    /\ UNCHANGED <<cfg, dbVars, queue, thr, ctl, srcVars, faults, delivered>>
    /\ UNCHANGED libVars

PrepareOutcomes == IF faults > 0 THEN {"ok", "count", "schema"} ELSE {"ok"}

\* row count, the TableExecution row (created once, reset on a retry),
\* source schema and destination table
SeqPrepare(w) ==
    /\ wk[w].pc = "seq_prepare"
    /\ \E f \in PrepareOutcomes :
          IF f = "count"
          THEN /\ wk' = [wk EXCEPT ![w] = RaiseInAttempt(w, Error("source error"))]
               /\ faults' = faults - 1
               /\ UNCHANGED texec
          ELSE LET total == srcRows[SourceTable(w)]
                   te == IF wk[w].te = 0 THEN Len(texec) + 1 ELSE wk[w].te
               IN  /\ texec' =
                        IF wk[w].te = 0
                        THEN Append(texec, NewTableExecution(wk[w].eid, SourceTable(w),
                                                             total, wk[w].retry_count))
                        ELSE [texec EXCEPT ![te] =
                                 [@ EXCEPT !.retry_count = wk[w].retry_count,
                                           !.status = "running",
                                           !.error_message = "none",
                                           !.processed_rows = 0]]
                   /\ IF f = "schema"
                      THEN /\ wk' = [wk EXCEPT ![w] =
                                 [RaiseInAttempt(w, Error("source error"))
                                     EXCEPT !.te = te, !.total_rows = total]]
                           /\ faults' = faults - 1
                      ELSE /\ wk' = [wk EXCEPT ![w] =
                                 [@ EXCEPT !.pc = "seq_loop", !.te = te,
                                           !.total_rows = total, !.offset = 0,
                                           !.rows_transferred = 0,
                                           !.reads = 0, !.writes = 0]]
                           /\ UNCHANGED faults
    /\ UNCHANGED <<cfg, status, full_load_completed_tables, cdc_enabled_tables, exec,
                   queue, thr, ctl, srcVars, dstVars>>
    /\ UNCHANGED libVars

\* while offset < total_rows: the stop check before the batch
SeqLoop(w) ==
    /\ wk[w].pc = "seq_loop"
    /\ wk' = [wk EXCEPT ![w] =
          IF wk[w].offset >= wk[w].total_rows
          THEN [@ EXCEPT !.pc = "seq_success"]
          ELSE IF status = "stopped"
          THEN RaiseInAttempt(w, Interrupted)
          ELSE [@ EXCEPT !.pc = "seq_read"]]
    /\ UNCHANGED <<cfg, dbVars, queue, thr, ctl, srcVars, faults, dstVars>>
    /\ UNCHANGED libVars

\* source_connector.read_data(table, schema, batch_size, offset): the rows the
\* source holds now from the offset on, at most batch_size of them
read_data(t, batch_size, offset) == Min(batch_size, Max(0, srcRows[t] - offset))

SeqRead(w) ==
    /\ wk[w].pc = "seq_read"
    /\ \E fail \in FaultChoice :
          IF fail
          THEN /\ wk' = [wk EXCEPT ![w] = RaiseInAttempt(w, Error("source error"))]
               /\ faults' = faults - 1
          ELSE /\ LET n == read_data(SourceTable(w), cfg.batch_rows, wk[w].offset)
                  IN  wk' = [wk EXCEPT ![w] =
                         IF n = 0
                         THEN [@ EXCEPT !.pc = "seq_success",   \* empty: break
                                        !.reads = @ + 1]
                         ELSE [@ EXCEPT !.pc = "seq_write", !.batch = n,
                                        !.reads = @ + 1]]
               /\ UNCHANGED faults
    /\ UNCHANGED <<cfg, dbVars, queue, thr, ctl, srcVars, dstVars>>
    /\ UNCHANGED libVars

\* rows left in a batch by the transformations: filter_rows may drop any
Transformed(n) == IF cfg.filter_rows THEN 0..n ELSE {n}

\* the transformations of a table's batches in a full load: those of its
\* table_configs entry when the entry is enabled and has any ("none": the
\* entry has no transformations, "filter": a list with a row filter, "keep":
\* a list without), else the task's
TableTransformed(t, n) ==
    LET tc == cfg.table_configs
    IN  IF t \in DOMAIN tc /\ tc[t].enabled /\ tc[t].transformations # "none"
        THEN (IF tc[t].transformations = "filter" THEN 0..n ELSE {n})
        ELSE Transformed(n)

\* transformations, write_data(mode="append"), the counters and
\* table_execution.processed_rows
SeqWrite(w) ==
    /\ wk[w].pc = "seq_write"
    /\ \E fail \in FaultChoice :
          IF fail
          THEN /\ wk' = [wk EXCEPT ![w] = RaiseInAttempt(w, Error("write error"))]
               /\ faults' = faults - 1
               /\ UNCHANGED <<texec, dest>>
          ELSE \E kept \in TableTransformed(SourceTable(w), wk[w].batch) :
               /\ dest' = [dest EXCEPT ![SourceTable(w)] = @ + kept]
               /\ wk' = [wk EXCEPT ![w] =
                     [@ EXCEPT !.pc = "seq_cb",
                               !.rows_transferred = @ + kept,
                               !.total_rows_transferred = @ + kept,
                               !.offset = @ + cfg.batch_rows,
                               !.writes = @ + 1]]
               /\ texec' = [texec EXCEPT ![wk[w].te].processed_rows =
                                wk[w].rows_transferred + kept]
               /\ UNCHANGED faults
    /\ UNCHANGED <<cfg, status, full_load_completed_tables, cdc_enabled_tables, exec,
                   queue, thr, ctl, srcVars, cleanups, delivered>>
    /\ UNCHANGED libVars

\* progress_callback: db.refresh(task) and the stop check
SeqCallback(w) ==
    /\ wk[w].pc = "seq_cb"
    /\ wk' = [wk EXCEPT ![w] =
          IF status = "stopped" THEN RaiseInAttempt(w, Interrupted)
          ELSE [@ EXCEPT !.pc = "seq_cb_write"]]
    /\ UNCHANGED <<cfg, dbVars, queue, thr, ctl, srcVars, faults, dstVars>>
    /\ UNCHANGED libVars

\* progress_callback: update_execution(**kwargs), update_task_status("running")
SeqCallbackWrite(w) ==
    /\ wk[w].pc = "seq_cb_write"
    /\ exec' = [exec EXCEPT ![wk[w].eid].processed_rows = wk[w].total_rows_transferred]
    /\ update_task_status("running")
    /\ wk' = [wk EXCEPT ![w].pc = "seq_loop"]
    /\ UNCHANGED <<cfg, full_load_completed_tables, cdc_enabled_tables, texec,
                   queue, thr, ctl, srcVars, faults, dstVars>>
    /\ UNCHANGED libVars

\* the table is marked success and the next table is taken
SeqSuccess(w) ==
    /\ wk[w].pc = "seq_success"
    /\ texec' = [texec EXCEPT ![wk[w].te].status = "success"]
    /\ wk' = [wk EXCEPT ![w] =
          [@ EXCEPT !.pc = "seq_table", !.ti = @ + 1, !.completed_tables = @ + 1]]
    /\ UNCHANGED <<cfg, status, full_load_completed_tables, cdc_enabled_tables, exec,
                   queue, thr, ctl, srcVars, faults, dstVars>>
    /\ UNCHANGED libVars

\* the number of the attempt after a failed one
NextRetryCount(w) == wk[w].retry_count + 1

\* a table loop that logs the exhausted table and goes on to the next one
SeqExceptContinues(w) ==
    /\ wk[w].pc = "seq_except"
    /\ texec' = IF wk[w].te # 0
                THEN [texec EXCEPT ![wk[w].te] =
                         [@ EXCEPT !.status = "failed",
                                   !.error_message = wk[w].exc.msg]]
                ELSE texec
    /\ wk' = [wk EXCEPT ![w] =
          IF NextRetryCount(w) <= max_retries
          THEN [@ EXCEPT !.pc = "seq_attempt", !.retry_count = NextRetryCount(w)]
          ELSE [@ EXCEPT !.pc = "seq_table", !.ti = @ + 1]]
    /\ UNCHANGED <<cfg, status, full_load_completed_tables, cdc_enabled_tables, exec,
                   queue, thr, ctl, srcVars, faults, dstVars>>
    /\ UNCHANGED libVars

\* except Exception as e: count the attempt, mark the table failed, then
\* retry or raise Exception("Table ... failed after n attempts: " + str(e))
SeqExcept(w) ==
    /\ wk[w].pc = "seq_except"
    /\ texec' = IF wk[w].te # 0
                THEN [texec EXCEPT ![wk[w].te] =
                         [@ EXCEPT !.status = "failed",
                                   !.error_message = wk[w].exc.msg]]
                ELSE texec
    /\ wk' = [wk EXCEPT ![w] =
          IF NextRetryCount(w) <= max_retries
          THEN [@ EXCEPT !.pc = "seq_attempt", !.retry_count = NextRetryCount(w)]
          ELSE [@ EXCEPT !.pc = "et_failed", !.retry_count = NextRetryCount(w),
                         !.exc = Error(TableFailedAfter(SourceTable(w),
                                           NextRetryCount(w), wk[w].exc.msg))]]
    /\ UNCHANGED <<cfg, status, full_load_completed_tables, cdc_enabled_tables, exec,
                   queue, thr, ctl, srcVars, faults, dstVars>>
    /\ UNCHANGED libVars

(***************************************************************************)
(* TransferService._execute_full_load_parallel: the main thread.           *)
(***************************************************************************)
\* executor.submit(...) for table_name in task.source_tables
ParSubmit(w) ==
    /\ wk[w].pc = "par_submit"
    /\ thr' = [t \in TableNames |->
                  IF t \in Range(cfg.source_tables)
                  THEN [IdleThread EXCEPT !.pc = "pending"] ELSE IdleThread]
    /\ wk' = [wk EXCEPT ![w].pc = "par_wait"]
    /\ UNCHANGED <<cfg, dbVars, queue, ctl, srcVars, faults, dstVars>>
    /\ UNCHANGED libVars

Finished(t) == thr[t].pc \in {"done", "cancelled"}

\* for future in as_completed(...): one finished future, and its result
ParResult(w) ==
    /\ wk[w].pc = "par_wait"
    /\ \E t \in Range(cfg.source_tables) :
          /\ thr[t].pc = "done"
          /\ ~thr[t].seen
          /\ IF thr[t].result = "success"
             THEN /\ wk' = [wk EXCEPT ![w] =
                        [@ EXCEPT !.pc = "par_cb",
                                  !.completed_tables = @ + 1,
                                  !.total_rows_transferred = @ + thr[t].rows_transferred]]
                  /\ thr' = [thr EXCEPT ![t].seen = TRUE]
             ELSE IF thr[t].result = "stopped"
             THEN \* f.cancel() for every future: only one not yet started obeys
                  /\ thr' = [u \in TableNames |->
                                IF thr[u].pc = "pending"
                                THEN [thr[u] EXCEPT !.pc = "cancelled"]
                                ELSE IF u = t THEN [thr[u] EXCEPT !.seen = TRUE]
                                ELSE thr[u]]
                  /\ wk' = [wk EXCEPT ![w] = [@ EXCEPT !.pc = "par_exit",
                                                       !.exc = Interrupted]]
             ELSE /\ thr' = [thr EXCEPT ![t].seen = TRUE]
                  /\ wk' = [wk EXCEPT ![w] = [@ EXCEPT !.pc = "par_exit",
                                                       !.exc = Error(TableFailed(t, thr[t].error))]]
    /\ UNCHANGED <<cfg, dbVars, queue, ctl, srcVars, faults, dstVars>>
    /\ UNCHANGED libVars

\* as_completed is exhausted: the with block ends and the result is returned
ParDone(w) ==
    /\ wk[w].pc = "par_wait"
    /\ \A t \in Range(cfg.source_tables) : thr[t].pc = "done" /\ thr[t].seen
    /\ wk' = [wk EXCEPT ![w].pc = "et_success"]
    /\ UNCHANGED <<cfg, dbVars, queue, thr, ctl, srcVars, faults, dstVars>>
    /\ UNCHANGED libVars

\* progress_callback in the main thread: db.refresh(task) and the stop check
ParCallback(w) ==
    /\ wk[w].pc = "par_cb"
    /\ wk' = [wk EXCEPT ![w] =
          IF status = "stopped" THEN [@ EXCEPT !.pc = "par_exit", !.exc = Interrupted]
          ELSE [@ EXCEPT !.pc = "par_cb_write"]]
    /\ UNCHANGED <<cfg, dbVars, queue, thr, ctl, srcVars, faults, dstVars>>
    /\ UNCHANGED libVars

ParCallbackWrite(w) ==
    /\ wk[w].pc = "par_cb_write"
    /\ exec' = [exec EXCEPT ![wk[w].eid].processed_rows = wk[w].total_rows_transferred]
    /\ update_task_status("running")
    /\ wk' = [wk EXCEPT ![w].pc = "par_wait"]
    /\ UNCHANGED <<cfg, full_load_completed_tables, cdc_enabled_tables, texec,
                   queue, thr, ctl, srcVars, faults, dstVars>>
    /\ UNCHANGED libVars

\* an exception leaves the with block: ThreadPoolExecutor.__exit__ is
\* shutdown(wait=True), which lets every future that was not cancelled run
ParExit(w) ==
    /\ wk[w].pc = "par_exit"
    /\ \A t \in Range(cfg.source_tables) : Finished(t)
    /\ wk' = [wk EXCEPT ![w].pc = IF wk[w].exc.type = "InterruptedError"
                                  THEN "et_interrupted" ELSE "et_failed"]
    /\ UNCHANGED <<cfg, dbVars, queue, thr, ctl, srcVars, faults, dstVars>>
    /\ UNCHANGED libVars

(***************************************************************************)
(* TransferService._process_single_table_thread: one pool thread per table.*)
(***************************************************************************)
\* the worker process whose pool the threads belong to
PoolOwner(w) == wk[w].pc \in ParPcs

RunningThreads == {t \in TableNames : thr[t].pc \in {"t_prepare", "t_loop", "t_read",
                                                      "t_write", "t_success"}}

\* index of a table in task.source_tables
IndexOf(t) == CHOOSE i \in 1..Len(cfg.source_tables) : cfg.source_tables[i] = t

\* a free pool thread takes the oldest submitted work item; connect, get the
\* task, and return "stopped" when the task is stopped
ThreadStart(w, t) ==
    /\ PoolOwner(w)
    /\ thr[t].pc = "pending"
    /\ Cardinality(RunningThreads) < cfg.parallel_tables
    /\ \A u \in Range(cfg.source_tables) :
          thr[u].pc = "pending" => IndexOf(t) <= IndexOf(u)
    /\ thr' = [thr EXCEPT ![t] =
          IF status = "stopped"
          THEN [@ EXCEPT !.pc = "done", !.result = "stopped", !.connected = TRUE]
          ELSE [@ EXCEPT !.pc = "t_prepare", !.connected = TRUE]]
    /\ UNCHANGED <<cfg, dbVars, queue, wk, ctl, srcVars, faults, dstVars>>
    /\ UNCHANGED libVars

\* return {"status": "failed", "error": str(e)}
ThreadFailed(t, msg) ==
    [thr[t] EXCEPT !.pc = "done", !.result = "failed", !.error = msg]

\* row count, the TableExecution row, source schema, destination table
ThreadPrepare(w, t) ==
    /\ PoolOwner(w)
    /\ thr[t].pc = "t_prepare"
    /\ \E f \in PrepareOutcomes :
          IF f = "count"
          THEN /\ thr' = [thr EXCEPT ![t] = ThreadFailed(t, "source error")]
               /\ faults' = faults - 1
               /\ UNCHANGED texec
          ELSE LET total == srcRows[t]
                   te == Len(texec) + 1
               IN  IF f = "schema"
                   THEN /\ texec' = Append(texec,
                               [NewTableExecution(wk[w].eid, t, total, 0)
                                   EXCEPT !.status = "failed",
                                          !.error_message = "source error"])
                        /\ thr' = [thr EXCEPT ![t] = ThreadFailed(t, "source error")]
                        /\ faults' = faults - 1
                   ELSE /\ texec' = Append(texec,
                               NewTableExecution(wk[w].eid, t, total, 0))
                        /\ thr' = [thr EXCEPT ![t] =
                               [@ EXCEPT !.pc = "t_loop", !.te = te,
                                         !.total_rows = total]]
                        /\ UNCHANGED faults
    /\ UNCHANGED <<cfg, status, full_load_completed_tables, cdc_enabled_tables, exec,
                   queue, wk, ctl, srcVars, dstVars>>
    /\ UNCHANGED libVars

\* while offset < total_rows: db.refresh(task) and the stop check
ThreadLoop(w, t) ==
    /\ PoolOwner(w)
    /\ thr[t].pc = "t_loop"
    /\ thr' = [thr EXCEPT ![t] =
          IF thr[t].offset >= thr[t].total_rows
          THEN [@ EXCEPT !.pc = "t_success"]
          ELSE IF status = "stopped"
          THEN [@ EXCEPT !.pc = "done", !.result = "stopped"]
          ELSE [@ EXCEPT !.pc = "t_read"]]
    /\ UNCHANGED <<cfg, dbVars, queue, wk, ctl, srcVars, faults, dstVars>>
    /\ UNCHANGED libVars

\* except Exception in the thread: the table is failed, nothing is retried
ThreadExcept(t, msg) ==
    /\ texec' = [texec EXCEPT ![thr[t].te] =
                    [@ EXCEPT !.status = "failed", !.error_message = msg]]
    /\ thr' = [thr EXCEPT ![t] = ThreadFailed(t, msg)]
    /\ faults' = faults - 1

ThreadRead(w, t) ==
    /\ PoolOwner(w)
    /\ thr[t].pc = "t_read"
    /\ \E fail \in FaultChoice :
          IF fail
          THEN ThreadExcept(t, "source error")
          ELSE /\ LET n == read_data(t, cfg.batch_rows, thr[t].offset)
                  IN  thr' = [thr EXCEPT ![t] =
                          IF n = 0 THEN [@ EXCEPT !.pc = "t_success"]
                          ELSE [@ EXCEPT !.pc = "t_write", !.batch = n]]
               /\ UNCHANGED <<texec, faults>>
    /\ UNCHANGED <<cfg, status, full_load_completed_tables, cdc_enabled_tables, exec,
                   queue, wk, ctl, srcVars, dstVars>>
    /\ UNCHANGED libVars

ThreadWrite(w, t) ==
    /\ PoolOwner(w)
    /\ thr[t].pc = "t_write"
    /\ \E fail \in FaultChoice :
          IF fail
          THEN /\ ThreadExcept(t, "write error")
               /\ UNCHANGED dest
          ELSE \E kept \in TableTransformed(t, thr[t].batch) :
               /\ dest' = [dest EXCEPT ![t] = @ + kept]
               /\ thr' = [thr EXCEPT ![t] =
                     [@ EXCEPT !.pc = "t_loop",
                               !.rows_transferred = @ + kept,
                               !.offset = @ + cfg.batch_rows]]
               /\ texec' = [texec EXCEPT ![thr[t].te].processed_rows =
                                thr[t].rows_transferred + kept]
               /\ UNCHANGED faults
    /\ UNCHANGED <<cfg, status, full_load_completed_tables, cdc_enabled_tables, exec,
                   queue, wk, ctl, srcVars, cleanups, delivered>>
    /\ UNCHANGED libVars

ThreadSuccess(w, t) ==
    /\ PoolOwner(w)
    /\ thr[t].pc = "t_success"
    /\ texec' = [texec EXCEPT ![thr[t].te].status = "success"]
    /\ thr' = [thr EXCEPT ![t] = [@ EXCEPT !.pc = "done", !.result = "success",
                                           !.connected = FALSE]]   \* disconnect()
    /\ UNCHANGED <<cfg, status, full_load_completed_tables, cdc_enabled_tables, exec,
                   queue, wk, ctl, srcVars, faults, dstVars>>
    /\ UNCHANGED libVars

(***************************************************************************)
(* connectors/sql_server.py read_cdc_changes.  LSNs are natural numbers     *)
(* ordered as the 10-byte values are; 0 stands for None / NULL.  The hex    *)
(* form the cursor is stored in is compared after bytes.fromhex, i.e. by    *)
(* value.                                                                  *)
(***************************************************************************)
MinLsn == 1      \* sys.fn_cdc_get_min_lsn: below every change of the instance

\* [start_lsn, end_lsn] as the adapter computes it, and the pair it returns:
\* the changes of the table in the closed range, and end_lsn as new cursor
read_cdc_changes(t, from_lsn) ==
    LET start_lsn == IF from_lsn # 0 THEN from_lsn ELSE MinLsn
        end_lsn == maxLsn
    IN  IF end_lsn = 0 THEN [df |-> {}, new_lsn |-> 0]
        ELSE IF start_lsn >= end_lsn THEN [df |-> {}, new_lsn |-> end_lsn]
        ELSE [df |-> {c \in changes : c.table = t /\ start_lsn <= c.lsn
                                                   /\ c.lsn <= end_lsn},
              new_lsn |-> end_lsn]

(***************************************************************************)
(* celery_tasks.py execute_cdc_polling and                                 *)
(* TransferService.execute_cdc_sync.                                       *)
(***************************************************************************)
\* f"{table_name}_last_lsn", table_name being the part after the schema
CursorKey(t) == BaseName(t)

PollBegin(w) ==
    /\ Take(w, "execute_cdc_polling")
    /\ queue' = Deq(queue, "execute_cdc_polling")
    /\ IF status # "running"
       THEN UNCHANGED <<exec, wk>>
       ELSE /\ Len(exec) < MaxExecutions
            /\ exec' = Append(exec, NewExecution("cdc_sync"))
            /\ wk' = [wk EXCEPT ![w] =
                  [IdleWorker EXCEPT !.kind = "execute_cdc_polling",
                                     !.eid = Len(exec) + 1,
                                     !.pc = "cdc_table", !.ti = 1,
                                     !.connected = TRUE,
                                     !.cdc = cdc_enabled_tables]]
    /\ UNCHANGED <<cfg, status, full_load_completed_tables, cdc_enabled_tables, texec,
                   thr, ctl, srcVars, faults, dstVars>>
    /\ UNCHANGED libVars

\* where an exception that leaves execute_cdc_sync is handled
CdcCaller(w, ok) ==
    IF wk[w].kind = "execute_task"
    THEN (IF ok THEN "et_success" ELSE "et_interrupted")
    ELSE (IF ok THEN "poll_finish" ELSE "poll_except")

CdcEnableOutcomes == IF cfg.cdc_enable_fails THEN {TRUE, FALSE} ELSE {TRUE}

\* for table_name in task.source_tables: stop check, the TableExecution row,
\* is_cdc_enabled / enable_cdc, the last LSN and read_cdc_changes
CdcTable(w) ==
    /\ wk[w].pc = "cdc_table"
    /\ IF wk[w].ti > Len(cfg.source_tables)
       THEN /\ wk' = [wk EXCEPT ![w].pc = "cdc_persist"]
            /\ UNCHANGED <<texec, faults>>
       ELSE IF status = "stopped"
       THEN /\ wk' = [wk EXCEPT ![w] = [@ EXCEPT !.pc = CdcCaller(w, FALSE),
                                                 !.exc = Interrupted]]
            /\ UNCHANGED <<texec, faults>>
       ELSE /\ texec' = Append(texec,
                   NewTableExecution(wk[w].eid, BaseName(SourceTable(w)), 0, 0))
            /\ \E enabled \in CdcEnableOutcomes, fail \in FaultChoice :
                  IF ~enabled
                  THEN \* enable_cdc failed: continue with the next table
                       /\ wk' = [wk EXCEPT ![w] = [@ EXCEPT !.ti = @ + 1, !.te = 0]]
                       /\ UNCHANGED faults
                  ELSE IF fail
                  THEN /\ wk' = [wk EXCEPT ![w] =
                             [@ EXCEPT !.pc = "cdc_except", !.te = Len(texec) + 1,
                                       !.exc = Error("source error")]]
                       /\ faults' = faults - 1
                  ELSE LET r == read_cdc_changes(SourceTable(w),
                                                 wk[w].cdc[CursorKey(SourceTable(w))])
                       IN  /\ wk' = [wk EXCEPT ![w] =
                                 [@ EXCEPT !.pc = "cdc_write", !.te = Len(texec) + 1,
                                           !.got = r.df, !.new_lsn = r.new_lsn]]
                           /\ UNCHANGED faults
    /\ UNCHANGED <<cfg, status, full_load_completed_tables, cdc_enabled_tables, exec,
                   queue, thr, ctl, srcVars, dstVars>>
    /\ UNCHANGED libVars

\* a non-empty batch is transformed and appended; then the local cursor of
\* the table is set and the table is marked success
CdcWrite(w) ==
    /\ wk[w].pc = "cdc_write"
    /\ \E fail \in FaultChoice :
          IF wk[w].got # {} /\ cfg.filter_rows
          THEN \* database_name is read before it is assigned: UnboundLocalError
               /\ wk' = [wk EXCEPT ![w] = [@ EXCEPT !.pc = "cdc_except",
                                                    !.exc = Error("UnboundLocalError")]]
               /\ UNCHANGED <<texec, delivered, faults>>
          ELSE IF wk[w].got # {} /\ fail
          THEN /\ wk' = [wk EXCEPT ![w] = [@ EXCEPT !.pc = "cdc_except",
                                                    !.exc = Error("write error")]]
               /\ faults' = faults - 1
               /\ UNCHANGED <<texec, delivered>>
          ELSE /\ delivered' = delivered \cup wk[w].got
               /\ texec' = [texec EXCEPT ![wk[w].te] =
                     [@ EXCEPT !.status = "success",
                               !.total_rows = IF wk[w].got # {}
                                              THEN Cardinality(wk[w].got) ELSE @,
                               !.processed_rows = IF wk[w].got # {}
                                                  THEN Cardinality(wk[w].got) ELSE @]]
               /\ wk' = [wk EXCEPT ![w] =
                     [@ EXCEPT !.pc = "cdc_table", !.ti = @ + 1, !.te = 0,
                               !.got = {},
                               !.total_changes = @ + Cardinality(wk[w].got),
                               !.cdc = [@ EXCEPT ![CursorKey(SourceTable(w))] =
                                           wk[w].new_lsn],
                               !.adv = [@ EXCEPT ![SourceTable(w)] = wk[w].new_lsn],
                               !.nochg = IF wk[w].got = {}
                                         THEN @ \cup {SourceTable(w)} ELSE @]]
               /\ UNCHANGED faults
    /\ UNCHANGED <<cfg, status, full_load_completed_tables, cdc_enabled_tables, exec,
                   queue, thr, ctl, srcVars, dest, cleanups>>
    /\ UNCHANGED libVars

\* except Exception inside the table loop: the table is failed, continue
CdcExcept(w) ==
    /\ wk[w].pc = "cdc_except"
    /\ texec' = [texec EXCEPT ![wk[w].te] =
                    [@ EXCEPT !.status = "failed", !.error_message = wk[w].exc.msg]]
    /\ wk' = [wk EXCEPT ![w] = [@ EXCEPT !.pc = "cdc_table", !.ti = @ + 1, !.te = 0,
                                         !.got = {}, !.exc = NoExc]]
    /\ UNCHANGED <<cfg, status, full_load_completed_tables, cdc_enabled_tables, exec,
                   queue, thr, ctl, srcVars, faults, dstVars>>
    /\ UNCHANGED libVars

\* CdcPersist as it would be if the assignment of the map were not flushed
CdcPersistNotFlushed(w) ==
    /\ wk[w].pc = "cdc_persist"
    /\ wk' = [wk EXCEPT ![w] = [@ EXCEPT !.pc = CdcCaller(w, TRUE),
                                         !.connected = FALSE]]
    /\ UNCHANGED <<cfg, status, full_load_completed_tables, cdc_enabled_tables, exec,
                   texec, queue, thr, ctl, srcVars, faults, dstVars>>
    /\ UNCHANGED libVars

\* task.cdc_enabled_tables = cdc_enabled_tables; commit: the whole map is
\* written from the copy taken when the poll began
CdcPersist(w) ==
    /\ wk[w].pc = "cdc_persist"
    /\ cdc_enabled_tables' = wk[w].cdc
    /\ wk' = [wk EXCEPT ![w] = [@ EXCEPT !.pc = CdcCaller(w, TRUE),
                                         !.connected = FALSE]]   \* disconnect()
    /\ UNCHANGED <<cfg, status, full_load_completed_tables, exec, texec,
                   queue, thr, ctl, srcVars, faults, dstVars>>
    /\ UNCHANGED libVars

\* what execute_cdc_polling enqueues after a poll
PollReschedule(q) ==
    IF cfg.schedule_type = "continuous" THEN Enq(q, "execute_cdc_polling")
    ELSE IF cfg.schedule_type = "interval" /\ cfg.schedule_interval_seconds # 0
    THEN Enq(q, "execute_cdc_polling")
    ELSE q

PollFinish(w) ==
    /\ wk[w].pc = "poll_finish"
    /\ exec' = [exec EXCEPT ![wk[w].eid] =
                   [@ EXCEPT !.status = "success",
                             !.total_rows = wk[w].total_changes,
                             !.processed_rows = wk[w].total_changes]]
    /\ queue' = PollReschedule(queue)
    /\ wk' = [wk EXCEPT ![w] = IdleWorker]
    /\ UNCHANGED <<cfg, status, full_load_completed_tables, cdc_enabled_tables, texec,
                   thr, ctl, srcVars, faults, dstVars>>
    /\ UNCHANGED libVars

\* except Exception in execute_cdc_polling: logged, nothing is written
PollExcept(w) ==
    /\ wk[w].pc = "poll_except"
    /\ wk' = [wk EXCEPT ![w] = IdleWorker]
    /\ UNCHANGED <<cfg, dbVars, queue, thr, ctl, srcVars, faults, dstVars>>
    /\ UNCHANGED libVars

(***************************************************************************)
(* The environment: the source database and the worker host.               *)
(***************************************************************************)
\* the table has been counted and its batch loop is running
Transferring(t) ==
    \/ \E w \in Workers : /\ wk[w].pc \in {"seq_loop", "seq_read"}
                          /\ SourceTable(w) = t
    \/ thr[t].pc \in {"t_loop", "t_read"}

\* a row is inserted into / deleted from a source table during its transfer
SourceInsert(t) ==
    /\ srcMut > 0
    /\ Transferring(t)
    /\ srcRows[t] < MaxRows
    /\ srcRows' = [srcRows EXCEPT ![t] = @ + 1]
    /\ srcMut' = srcMut - 1
    /\ UNCHANGED <<cfg, dbVars, queue, wk, thr, ctl, faults, dstVars, maxLsn, changes>>
    /\ UNCHANGED libVars

SourceDelete(t) ==
    /\ srcMut > 0
    /\ Transferring(t)
    /\ srcRows[t] > 0
    /\ srcRows' = [srcRows EXCEPT ![t] = @ - 1]
    /\ srcMut' = srcMut - 1
    /\ UNCHANGED <<cfg, dbVars, queue, wk, thr, ctl, faults, dstVars, maxLsn, changes>>
    /\ UNCHANGED libVars

\* a transaction on a table of the task commits and is captured
SourceCommit(t) ==
    /\ t \in Range(cfg.source_tables)
    /\ maxLsn < MaxLsn
    /\ LET lsn == Max(maxLsn, MinLsn) + 1
       IN  /\ maxLsn' = lsn
           /\ changes' = changes \cup {[table |-> t, lsn |-> lsn]}
    /\ UNCHANGED <<cfg, dbVars, queue, wk, thr, ctl, faults, dstVars, srcRows, srcMut>>
    /\ UNCHANGED libVars

\* the worker process dies (host crash, kill): its run is lost without trace.
\* A crash is drawn from the same budget as the connector errors.
Crash(w) ==
    /\ InFlight(w)
    /\ faults > 0
    /\ faults' = faults - 1
    /\ wk' = [wk EXCEPT ![w] = IdleWorker]
    /\ UNCHANGED <<cfg, dbVars, queue, thr, ctl, srcVars, dstVars>>
    /\ UNCHANGED libVars

(***************************************************************************)
(* standalone_worker.py StandaloneWorker: the polling loop runs in one     *)
(* thread and starts one thread per task to execute; active_tasks is a     *)
(* plain dict shared by all of them, with no lock.  A step is one access   *)
(* of the dict or of the database.                                         *)
(***************************************************************************)
SwTasks == {1, 2}       \* ids of the tasks in the database
MaxSwThreads == 3       \* task threads started in one behaviour
max_workers == 1        \* StandaloneWorker(max_workers=1)

SwThreads == 1..MaxSwThreads

\* __init__: no active task, the polling loop not yet in its first round; no
\* thread exists and every task is freshly created
NewStandaloneWorker ==
    [active |-> [t \in SwTasks |-> 0],
     poll |-> [pc |-> "sleep", todo |-> <<>>, thread |-> 0],
     th |-> [i \in SwThreads |-> [task |-> 0, pc |-> "unborn"]],
     tstatus |-> [t \in SwTasks |-> "created"]]

\* thread.is_alive(): started and not yet terminated
Alive(i) == sw.th[i].pc \in {"run", "cleanup", "del", "tail"}

\* the ascending sequence of the members of a set of task ids
RECURSIVE Ascending(_)
Ascending(S) ==
    IF S = {} THEN <<>>
    ELSE LET m == CHOOSE x \in S : \A y \in S : x <= y
         IN  <<m>> \o Ascending(S \ {m})

\* the next task of the for loop, or the sleep at the end of the round
NextTask(p) ==
    IF Len(p.todo) > 1
    THEN [p EXCEPT !.pc = "in", !.todo = Tail(@), !.thread = 0]
    ELSE [p EXCEPT !.pc = "sleep", !.todo = <<>>, !.thread = 0]

\* the round is left: break, or an exception caught by the loop's handler
EndRound(p) == [p EXCEPT !.pc = "sleep", !.todo = <<>>, !.thread = 0]

\* what no step of the standalone worker changes
celeryVars == <<cfg, dbVars, queue, wk, thr, ctl, srcVars, faults, dstVars,
                resolverVars, dbq, s3obj, meta>>

\* tasks = db.query(Task).filter(status in ('created', 'running')).all()
PollQuery ==
    /\ sw.poll.pc = "sleep"
    /\ LET tasks == Ascending({t \in SwTasks : sw.tstatus[t] \in {"created", "running"}})
       IN  sw' = [sw EXCEPT !.poll = IF tasks = <<>> THEN EndRound(@)
                                     ELSE [@ EXCEPT !.pc = "in", !.todo = tasks]]
    /\ UNCHANGED celeryVars

\* if task.id in self.active_tasks
PollIn ==
    /\ sw.poll.pc = "in"
    /\ sw' = [sw EXCEPT !.poll.pc = IF sw.active[Head(sw.poll.todo)] # 0
                                    THEN "alive" ELSE "capacity"]
    /\ UNCHANGED celeryVars

\* thread = self.active_tasks[task.id]; if thread.is_alive(): continue;
\* else: del self.active_tasks[task.id].  The lookup raises KeyError when the
\* thread has removed its entry since the membership test.
PollAlive ==
    /\ sw.poll.pc = "alive"
    /\ LET t == Head(sw.poll.todo)
       IN  IF sw.active[t] = 0
           THEN sw' = [sw EXCEPT !.poll = EndRound(@)]
           ELSE IF Alive(sw.active[t])
           THEN sw' = [sw EXCEPT !.poll = NextTask(@)]
           ELSE sw' = [sw EXCEPT !.active[t] = 0, !.poll.pc = "capacity"]
    /\ UNCHANGED celeryVars

\* if len(self.active_tasks) >= self.max_workers: break
PollCapacity ==
    /\ sw.poll.pc = "capacity"
    /\ sw' = [sw EXCEPT !.poll =
                 IF Cardinality({t \in SwTasks : sw.active[t] # 0}) >= max_workers
                 THEN EndRound(@) ELSE [@ EXCEPT !.pc = "start"]]
    /\ UNCHANGED celeryVars

\* a created task is set running and committed; thread.start()
PollStart ==
    /\ sw.poll.pc = "start"
    /\ \E i \in SwThreads :
          /\ sw.th[i].pc = "unborn"
          /\ \A j \in SwThreads : j < i => sw.th[j].pc # "unborn"
          /\ LET t == Head(sw.poll.todo)
             IN  sw' = [sw EXCEPT !.tstatus[t] = IF @ = "created" THEN "running" ELSE @,
                                  !.th[i] = [task |-> t, pc |-> "run"],
                                  !.poll = [@ EXCEPT !.pc = "register", !.thread = i]]
    /\ UNCHANGED celeryVars

\* self.active_tasks[task.id] = thread
PollRegister ==
    /\ sw.poll.pc = "register"
    /\ sw' = [sw EXCEPT !.active[Head(sw.poll.todo)] = sw.poll.thread,
                        !.poll = NextTask(@)]
    /\ UNCHANGED celeryVars

poll_tasks ==
    PollQuery \/ PollIn \/ PollAlive \/ PollCapacity \/ PollStart \/ PollRegister

\* execute_task up to its finally: the transfer returns, or it raises and the
\* handler sets the task failed (unless that commit fails as well)
ThreadRun(i) ==
    /\ sw.th[i].pc = "run"
    /\ \E failed \in BOOLEAN :
          sw' = [sw EXCEPT !.th[i].pc = "cleanup",
                           !.tstatus[sw.th[i].task] = IF failed THEN "failed" ELSE @]
    /\ UNCHANGED celeryVars

\* finally: db.close(); if task_id in self.active_tasks
ThreadCleanup(i) ==
    /\ sw.th[i].pc = "cleanup"
    /\ sw' = [sw EXCEPT !.th[i].pc = IF sw.active[sw.th[i].task] # 0
                                     THEN "del" ELSE "tail"]
    /\ UNCHANGED celeryVars

\* del self.active_tasks[task_id]
ThreadDel(i) ==
    /\ sw.th[i].pc = "del"
    /\ sw' = [sw EXCEPT !.active[sw.th[i].task] = 0, !.th[i].pc = "tail"]
    /\ UNCHANGED celeryVars

\* execute_task returns and the thread terminates
ThreadExit(i) ==
    /\ sw.th[i].pc = "tail"
    /\ sw' = [sw EXCEPT !.th[i].pc = "dead"]
    /\ UNCHANGED celeryVars

execute_task(i) == ThreadRun(i) \/ ThreadCleanup(i) \/ ThreadDel(i) \/ ThreadExit(i)

(***************************************************************************)
(* Task configurations and initial states.                                 *)
(***************************************************************************)
Modes == {"full_load", "cdc", "full_load_then_cdc"}
Schedules == {"on_demand", "continuous", "interval"}

\* task.table_configs is None
NoTableConfigs == [t \in {} |-> [enabled |-> TRUE, transformations |-> "none"]]

\* one table, one row per batch, sequential, no retry, S3 destination
BaseCfg ==
    [mode |-> "full_load", schedule_type |-> "on_demand",
     schedule_interval_seconds |-> 0, source_tables |-> <<DboA>>, batch_rows |-> 1,
     retry_enabled |-> FALSE, max_retries |-> 0, cleanup_on_retry |-> FALSE,
     dest_has_cleanup |-> TRUE, parallel_tables |-> 1, filter_rows |-> FALSE,
     cdc_enable_fails |-> FALSE, table_configs |-> NoTableConfigs]

\* nothing has run yet: no execution rows, idle workers, an empty destination
IdleStore ==
    /\ full_load_completed_tables = {}
    /\ cdc_enabled_tables = [k \in BaseNames |-> 0]
    /\ exec = <<>>
    /\ texec = <<>>
    /\ wk = [w \in Workers |-> IdleWorker]
    /\ thr = [t \in TableNames |-> IdleThread]
    /\ dest = [t \in TableNames |-> 0]
    /\ cleanups = [t \in TableNames |-> 0]
    /\ delivered = {}
    /\ sw = NewStandaloneWorker

InitStore == IdleStore /\ NoLibraryCall

\* a source whose change log is empty
NoChangeLog ==
    /\ maxLsn = 0
    /\ changes = {}

(***************************************************************************)
(* Spec: the task lifecycle.  A freshly created task of any mode and       *)
(* schedule receives control requests; its single table holds one row and  *)
(* one captured change.                                                    *)
(***************************************************************************)
Init ==
    /\ InitStore
    /\ status = "created"
    /\ queue = EmptyQueue
    /\ ctl = MaxControl
    /\ cfg \in {[BaseCfg EXCEPT !.mode = m, !.schedule_type = s,
                                !.schedule_interval_seconds =
                                    IF s = "interval" THEN 1 ELSE 0] :
                   m \in Modes, s \in Schedules}
    /\ srcRows = [t \in TableNames |-> 1]
    /\ srcMut = 0
    /\ faults \in {0, 1}
    /\ maxLsn = MinLsn + 1
    /\ changes = {[table |-> DboA, lsn |-> MinLsn + 1]}

Control == ControlStart \/ ControlStop \/ ControlPause \/ ControlResume

ShortHandlers(w) ==
    \/ StartTask(w)
    \/ StopTask(w)
    \/ Revoked(w)
    \/ PauseTask(w)
    \/ ResumeTask(w)

ExecuteTask(w) ==
    \/ ExecuteTaskBegin(w)
    \/ ExecuteTaskSuccess(w)
    \/ ExecuteTaskInterrupted(w)
    \/ ExecuteTaskFailed(w)

Sequential(w) ==
    \/ SeqTable(w)
    \/ SeqAttempt(w)
    \/ SeqPrepare(w)
    \/ SeqLoop(w)
    \/ SeqRead(w)
    \/ SeqWrite(w)
    \/ SeqCallback(w)
    \/ SeqCallbackWrite(w)
    \/ SeqSuccess(w)
    \/ SeqExcept(w)

CdcSync(w) ==
    \/ CdcTable(w)
    \/ CdcWrite(w)
    \/ CdcExcept(w)
    \/ CdcPersist(w)

Polling(w) ==
    \/ PollBegin(w)
    \/ PollFinish(w)
    \/ PollExcept(w)

Next ==
    \/ Control
    \/ \E w \in Workers :
          ShortHandlers(w) \/ ExecuteTask(w) \/ Sequential(w) \/ CdcSync(w) \/ Polling(w)

Spec == Init /\ [][Next]_vars

(***************************************************************************)
(* Properties of the lifecycle.                                            *)
(***************************************************************************)
\* execute_task / execute_cdc_polling runs that are queued or in flight
Executors ==
    queue["execute_task"] + queue["execute_cdc_polling"]
        + Cardinality({w \in Workers : InFlight(w)})

\* a TaskExecution that was created and has no terminal status yet
Terminal == {"success", "failed", "stopped", "partial_success"}
InFlightExecution == \E e \in 1..Len(exec) : exec[e].status \notin Terminal

\* nothing is queued and no worker process is busy
Quiescent ==
    /\ queue = EmptyQueue
    /\ \A w \in Workers : wk[w].pc = "idle"

\* C1: start is idempotent on a running task.  When start_task is handled
\* while the task is running and an executor is already queued or in flight,
\* it dispatches no further executor.
C1_StartOnRunningDispatchesNothing ==
    [][\A w \in Workers :
          (StartTask(w) /\ status = "running" /\ Executors >= 1)
              => (queue'["execute_task"] = queue["execute_task"]
                  /\ queue'["execute_cdc_polling"] = queue["execute_cdc_polling"])]_vars

\* C2: the task is running exactly when one of its TaskExecutions is in
\* flight.  Stated for the states in which nothing is queued and no handler
\* is running, so that no step between two writes of one handler is judged.
C2_RunningIffInFlightExecution ==
    Quiescent => (status = "running" <=> InFlightExecution)

(***************************************************************************)
(* SpecFL: one sequential full load of two tables.  start_task has set the *)
(* task running and queued execute_task; the caller may stop the task, the *)
(* source may gain or lose a row and connector calls may fail.             *)
(***************************************************************************)
\* the retry settings that differ in what the pipeline does: retry disabled
\* with a budget configured, no budget, and a budget with and without
\* cleanup, on a destination with (S3) and without (Snowflake)
\* cleanup_partial_files
RetryPolicies ==
    {p \in [retry_enabled : BOOLEAN, max_retries : 0..MaxRetries,
            cleanup_on_retry : BOOLEAN, dest_has_cleanup : BOOLEAN] :
        /\ (~p.retry_enabled \/ p.max_retries = 0)
              => (p.max_retries = IF p.retry_enabled THEN 0 ELSE MaxRetries)
                 /\ p.cleanup_on_retry /\ p.dest_has_cleanup
        /\ ~p.cleanup_on_retry => p.dest_has_cleanup}

WithRetryPolicy(c, p) ==
    [c EXCEPT !.retry_enabled = p.retry_enabled, !.max_retries = p.max_retries,
              !.cleanup_on_retry = p.cleanup_on_retry,
              !.dest_has_cleanup = p.dest_has_cleanup]

FullLoadCfgs ==
    {WithRetryPolicy([BaseCfg EXCEPT !.source_tables = <<DboA, DboB>>,
                                     !.batch_rows = b, !.filter_rows = fr], p) :
        b \in 1..MaxRows, fr \in BOOLEAN, p \in RetryPolicies}

InitFL ==
    /\ InitStore
    /\ NoChangeLog
    /\ status = "running"
    /\ queue = Enq(EmptyQueue, "execute_task")
    /\ ctl = 1
    /\ cfg \in FullLoadCfgs
    /\ \E n \in 0..MaxRows : srcRows = [t \in TableNames |-> IF t = DboA THEN n ELSE 1]
    /\ srcMut = 1
    /\ faults = MaxFaults

SourceRows(t) == SourceInsert(t) \/ SourceDelete(t)

NextFL ==
    \/ ControlStop
    \/ \E t \in TableNames : SourceRows(t)
    \/ \E w \in Workers :
          \/ StopTask(w)
          \/ Revoked(w)
          \/ ExecuteTask(w)
          \/ Sequential(w)

SpecFL == InitFL /\ [][NextFL]_vars

(***************************************************************************)
(* Properties of the full load.                                            *)
(***************************************************************************)
\* the message m is the text cause, alone or wrapped by the table loop
Reports(m, cause) ==
    \/ m = cause
    \/ \E t \in TableNames :
          \/ m = TableFailed(t, cause)
          \/ \E n \in 1..(MaxRetries + 1) : m = TableFailedAfter(t, n, cause)

\* a worker issues source_connector.read_data in this step
ReadIssued(w) ==
    /\ wk[w].pc = "seq_read"
    /\ wk'[w].pc \in {"seq_write", "seq_success", "seq_except"}

ThreadReadIssued(t) ==
    /\ thr[t].pc = "t_read"
    /\ thr'[t].pc \in {"t_write", "t_success", "done"}

\* the attempts of the current table are exhausted and the failure is on its
\* way to execute_task
FailurePropagated(w) ==
    /\ wk[w].kind = "execute_task"
    /\ wk[w].pc = "et_failed"
    /\ cfg.mode = "full_load"
    /\ cfg.parallel_tables = 1

FinishedStatuses == {"success", "failed", "stopped"}

\* C3: a stop observed during a full load ends the execution as stopped: no
\* TaskExecution is recorded as failed with the stop as its error, and the
\* task is not failed by it.
C3_StopIsNotRecordedAsFailure ==
    \A e \in 1..Len(exec) :
       ~(exec[e].status = "failed" /\ Reports(exec[e].error_message, StoppedMsg))

\* C4: once the task's status is stopped no new batch read is issued, in the
\* sequential loop and in the pool threads; a batch read before may still be
\* written.
C4_NoReadAfterStop ==
    [][status = "stopped" =>
          /\ \A w \in Workers : ~ReadIssued(w)
          /\ \A t \in TableNames : ~ThreadReadIssued(t)]_vars

\* C5: a table worker cancelled by a stop check does not retry: handling the
\* InterruptedError starts no further attempt and leaves the retry counter.
C5_CancelledWorkerDoesNotRetry ==
    [][\A w \in Workers :
          (SeqExcept(w) /\ wk[w].exc = Interrupted)
              => /\ wk'[w].pc # "seq_attempt"
                 /\ wk'[w].retry_count = wk[w].retry_count]_vars

\* C6: when every attempt of a table has failed with a connector error, k+1
\* attempts were made for k = max_retries (0 with retry disabled),
\* cleanup_partial was invoked k times with cleanup_on_retry and never
\* without, and its TableExecution is failed.
C6_RetryBudget ==
    \A w \in Workers :
       (FailurePropagated(w) /\ ~Reports(wk[w].exc.msg, StoppedMsg)) =>
          /\ wk[w].retry_count = max_retries + 1
          /\ cleanups[SourceTable(w)] = IF cfg.cleanup_on_retry THEN max_retries ELSE 0
          /\ wk[w].te # 0 => texec[wk[w].te].status = "failed"

\* C8: a finished TableExecution of a full load has processed_rows +
\* failed_rows <= total_rows, and processed_rows = total_rows on success.
C8_ProgressConsistency ==
    \A i \in 1..Len(texec) :
       texec[i].status \in FinishedStatuses =>
          /\ texec[i].processed_rows + texec[i].failed_rows <= texec[i].total_rows
          /\ texec[i].status = "success" =>
                texec[i].processed_rows = texec[i].total_rows

(***************************************************************************)
(* SpecPar: one parallel full load of three one-row tables on a pool of    *)
(* two or three threads, with retry and cleanup configured.  The caller    *)
(* may stop the task, and as many connector calls fail as the retry budget *)
(* of a table covers.                                                      *)
(***************************************************************************)
ParallelCfgs ==
    {[BaseCfg EXCEPT !.source_tables = <<DboA, DboB, DboC>>,
                     !.parallel_tables = n, !.retry_enabled = TRUE,
                     !.max_retries = MaxRetries, !.cleanup_on_retry = TRUE] :
        n \in {2, 3}}

InitPar ==
    /\ InitStore
    /\ NoChangeLog
    /\ status = "running"
    /\ queue = Enq(EmptyQueue, "execute_task")
    /\ ctl = 1
    /\ cfg \in ParallelCfgs
    /\ srcRows = [t \in TableNames |-> 1]
    /\ srcMut = 0
    /\ faults = MaxRetries

Parallel(w) ==
    \/ ParSubmit(w)
    \/ ParResult(w)
    \/ ParDone(w)
    \/ ParCallback(w)
    \/ ParCallbackWrite(w)
    \/ ParExit(w)

TableThread(w, t) ==
    \/ ThreadStart(w, t)
    \/ ThreadPrepare(w, t)
    \/ ThreadLoop(w, t)
    \/ ThreadRead(w, t)
    \/ ThreadWrite(w, t)
    \/ ThreadSuccess(w, t)

NextPar ==
    \/ ControlStop
    \/ \E w \in Workers :
          \/ StopTask(w)
          \/ Revoked(w)
          \/ ExecuteTask(w)
          \/ Parallel(w)
    \/ \E w \in Workers, t \in TableNames : TableThread(w, t)

SpecPar == InitPar /\ [][NextPar]_vars

\* C7: in the parallel path with retry and cleanup configured, a table whose
\* write fails once is retried in its worker: the failed write never fails the
\* execution.
C7_TransientWriteFailureIsRetried ==
    (cfg.parallel_tables > 1 /\ cfg.retry_enabled /\ cfg.max_retries >= 1)
        => \A e \in 1..Len(exec) :
              ~(exec[e].status = "failed"
                   /\ Reports(exec[e].error_message, "write error"))

(***************************************************************************)
(* SpecCDC: an on-demand CDC task over two tables, either of one schema or *)
(* of the same name in two schemas.  Every start request runs one poll and *)
(* the caller may start the task again at any time; transactions commit at *)
(* the source, and a connector call may fail or a worker process die at    *)
(* any point of a poll.  No stop is requested, so the stop check of a poll *)
(* never raises here.                                                      *)
(***************************************************************************)
CdcCfgs ==
    {[BaseCfg EXCEPT !.mode = "cdc", !.schedule_type = "on_demand",
                     !.source_tables = ts] :
        ts \in {<<DboA, DboB>>, <<DboA, SalesA>>}}

MaxStarts == 2     \* start requests the caller issues to the CDC task

InitCDC ==
    /\ InitStore
    /\ NoChangeLog
    /\ status = "created"
    /\ queue = EmptyQueue
    /\ ctl = MaxStarts
    /\ cfg \in CdcCfgs
    /\ srcRows = [t \in TableNames |-> 1]
    /\ srcMut = 0
    /\ faults = 1

NextCDC ==
    \/ ControlStart
    \/ \E t \in TableNames : SourceCommit(t)
    \/ \E w \in Workers :
          \/ StartTask(w)
          \/ PollBegin(w)
          \/ PollFinish(w)
          \/ CdcSync(w)
          \/ Crash(w)

SpecCDC == InitCDC /\ [][NextCDC]_vars

\* C9: the cursor persisted for a table never decreases from one write of
\* the task's CDC state to the next.
C9_CursorMonotonic ==
    [][\A k \in BaseNames : cdc_enabled_tables'[k] >= cdc_enabled_tables[k]]_vars

\* no poll is running
NoPollInFlight == \A w \in Workers : ~InFlight(w)

\* C10: at-least-once delivery.  Recovery polls read from the persisted
\* cursor on, so whenever no poll is running every committed change that lies
\* at or below its table's persisted cursor is in the destination.
C10_AtLeastOnce ==
    NoPollInFlight =>
       \A c \in changes :
          c.lsn <= cdc_enabled_tables[CursorKey(c.table)] => c \in delivered

\* C11: a poll is atomic per table.  Whenever the persisted cursor of a table
\* of the task changes, the step is the final write of a poll in which that
\* table's destination write has completed, and the value persisted is the new
\* cursor that poll obtained for the table.
C11_PollAtomicPerTable ==
    [][\A t \in Range(cfg.source_tables) :
          cdc_enabled_tables'[CursorKey(t)] # cdc_enabled_tables[CursorKey(t)]
             => \E w \in Workers :
                   /\ CdcPersist(w)
                   /\ wk[w].adv[t] # -1
                   /\ cdc_enabled_tables'[CursorKey(t)] = wk[w].adv[t]]_vars

ThenCdcCfgs ==
    {[BaseCfg EXCEPT !.mode = "full_load_then_cdc", !.schedule_type = s,
                     !.schedule_interval_seconds = IF s = "interval" THEN 1 ELSE 0,
                     !.source_tables = <<DboA, DboB>>] : s \in Schedules}

InitThenCdc ==
    /\ NoLibraryCall
    /\ sw = NewStandaloneWorker
    /\ full_load_completed_tables \in SUBSET {DboA, DboB}
    /\ cdc_enabled_tables = [k \in BaseNames |-> 0]
    /\ exec = <<>>
    /\ texec = <<>>
    /\ wk = [w \in Workers |-> IdleWorker]
    /\ thr = [t \in TableNames |-> IdleThread]
    /\ dest = [t \in TableNames |-> 0]
    /\ cleanups = [t \in TableNames |-> 0]
    /\ delivered = {}
    /\ status = "created"
    /\ queue = EmptyQueue
    /\ ctl = MaxControl
    /\ cfg \in ThenCdcCfgs
    /\ srcRows = [t \in TableNames |-> 1]
    /\ srcMut = 0
    /\ faults = 1
    /\ maxLsn = MinLsn + 1
    /\ changes = {[table |-> DboA, lsn |-> MinLsn + 1]}

NextThenCdc ==
    \/ ControlStart
    \/ ControlPause
    \/ ControlResume
    \/ \E w \in Workers :
          \/ StartTask(w)
          \/ PauseTask(w)
          \/ ResumeTask(w)
          \/ ExecuteTaskBegin(w)
          \/ ExecuteTaskFailed(w)
          \/ PollBegin(w)
          \/ PollFinish(w)
          \/ CdcSync(w)

SpecThenCdc == InitThenCdc /\ [][NextThenCdc]_vars

\* C13: when execute_task begins for a full_load_then_cdc task that has
\* tables not yet recorded in full_load_completed_tables, it hands the task
\* to the full-load pipeline (which on success records those tables) and
\* does not end the execution before any table has been transferred.
C13_FullLoadRunsForMissingTables ==
    [][\A w \in Workers :
          (ExecuteTaskBegin(w) /\ status \in {"created", "running"}
                               /\ TablesNeedingFullLoad # {})
             => wk'[w].pc \in {"seq_table", "par_submit"}]_vars

\* C14: in full_load_then_cdc with schedule continuous or interval the
\* polling loop goes on while the task is neither stopped nor paused: a
\* queued CDC poll taken in any other status creates its TaskExecution, and
\* no execute_task is enqueued other than by start.
C14_OnlyPollingContinues ==
    [][cfg.schedule_type \in {"continuous", "interval"} =>
          /\ \A w \in Workers :
                (PollBegin(w) /\ status \notin {"stopped", "paused"})
                   => Len(exec') = Len(exec) + 1
          /\ queue'["execute_task"] > queue["execute_task"]
                => \E w \in Workers : StartTask(w)]_vars

\* C15: a continuous full_load task repeats.  Each successful execution
\* enqueues another execute_task, and when that message is taken while the
\* task still has the status the success left it with (nobody stopped or
\* paused it), it runs: a new TaskExecution is created.
C15_ContinuousFollowUpRuns ==
    [][(cfg.mode = "full_load" /\ cfg.schedule_type = "continuous") =>
          \A w \in Workers :
             /\ ExecuteTaskSuccess(w)
                   => queue'["execute_task"] = queue["execute_task"] + 1
             /\ (ExecuteTaskBegin(w) /\ status = "completed")
                   => Len(exec') = Len(exec) + 1]_vars

\* C16: start_task starts the task (status running, an executor for the
\* mode dispatched) when the status it finds is created, completed or failed
\* (a stopped task was reset to created by the control endpoint), and
\* changes and dispatches nothing when it finds running or paused.
C16_StartOnlyFromStartable ==
    [][\A w \in Workers :
          StartTask(w) =>
             /\ status \in {"created", "completed", "failed"} =>
                   /\ status' = "running"
                   /\ queue' = StartDispatch(Deq(queue, "start_task"))
             /\ status \in {"running", "paused"} =>
                   /\ status' = status
                   /\ queue' = Deq(queue, "start_task")]_vars

\* C17: stop_task sets the task stopped and marks every running
\* TableExecution stopped with an error message; a TableExecution that is
\* stopped is not given another status afterwards; and while the task is
\* stopped no CDC poll and no execution creates a TaskExecution.
C17_StopEndsTablesAsStopped ==
    [][/\ \A w \in Workers :
             StopTask(w) =>
                /\ status' = "stopped"
                /\ \A i \in 1..Len(texec) :
                      texec[i].status = "running" =>
                         /\ texec'[i].status = "stopped"
                         /\ texec'[i].error_message # "none"
       /\ \A i \in 1..Len(texec) :
             texec[i].status = "stopped" => texec'[i].status = "stopped"
       /\ status = "stopped" => Len(exec') = Len(exec)]_vars

\* C18: a paused task stays paused until it is resumed, started or stopped.
\* While the status is paused no executor writes another status, an executor
\* at a batch boundary does not go on to read the next batch, and no
\* TaskExecution is created.
C18_PausedStaysPaused ==
    [][status = "paused" =>
          /\ \/ status' = "paused"
             \/ ControlStop
             \/ \E w \in Workers : ResumeTask(w) \/ StartTask(w) \/ StopTask(w)
          /\ \A w \in Workers : SeqLoop(w) => wk'[w].pc # "seq_read"
          /\ Len(exec') = Len(exec)]_vars

(***************************************************************************)
(* SpecResume: the task lifecycle of Spec with a caller that issues        *)
(* MaxResumeControl control requests.                                      *)
(***************************************************************************)
MaxResumeControl == 2

InitResume ==
    /\ InitStore
    /\ status = "created"
    /\ queue = EmptyQueue
    /\ ctl = MaxResumeControl
    /\ cfg \in {[BaseCfg EXCEPT !.mode = m, !.schedule_type = s,
                                !.schedule_interval_seconds =
                                    IF s = "interval" THEN 1 ELSE 0] :
                   m \in Modes, s \in Schedules}
    /\ srcRows = [t \in TableNames |-> 1]
    /\ srcMut = 0
    /\ faults \in {0, 1}
    /\ maxLsn = MinLsn + 1
    /\ changes = {[table |-> DboA, lsn |-> MinLsn + 1]}

SpecResume == InitResume /\ [][Next]_vars

\* C19: resume_task acts only on a paused task.  From paused it sets the
\* status running and enqueues one executor, execute_cdc_polling for the
\* modes cdc and full_load_then_cdc and execute_task for full_load; from any
\* other status it leaves the status and the executor queues as they are.
C19_ResumeOnlyFromPaused ==
    [][\A w \in Workers :
          ResumeTask(w) =>
             LET polls == queue'["execute_cdc_polling"] - queue["execute_cdc_polling"]
                 runs == queue'["execute_task"] - queue["execute_task"]
             IN  IF status = "paused"
                 THEN /\ status' = "running"
                      /\ polls = IF cfg.mode = "full_load" THEN 0 ELSE 1
                      /\ runs = IF cfg.mode = "full_load" THEN 1 ELSE 0
                 ELSE /\ status' = status
                      /\ polls = 0
                      /\ runs = 0]_vars

\* a full_load_then_cdc task has a CDC poll execution: it was resumed from
\* paused and resume_task dispatched the polling
C19_Witness ==
    /\ cfg.mode = "full_load_then_cdc"
    /\ \E e \in 1..Len(exec) : exec[e].type = "cdc_sync"

(***************************************************************************)
(* SpecUpdate: a CDC task whose list of source tables is edited.           *)
(* TaskService.update_task is applied between polls (a poll in flight      *)
(* keeps iterating the list it loaded, which is not modelled).             *)
(***************************************************************************)
\* the lists a caller sends as TaskUpdate.source_tables
UpdateLists == {<<DboA>>, <<DboB>>, <<SalesA>>, <<DboA, DboB>>, <<DboA, SalesA>>}

\* update_task with source_tables in the update: the cursor entries
\* f"{base_name}_last_lsn" of the removed tables are popped from a copy of
\* the CDC state, then the fields of the update are set
UpdateTask(ts) ==
    /\ \A w \in Workers : ~InFlight(w)
    /\ ts # cfg.source_tables
    /\ cfg' = [cfg EXCEPT !.source_tables = ts]
    /\ LET removed_tables == Range(cfg.source_tables) \ Range(ts)
       IN  cdc_enabled_tables' =
              [k \in BaseNames |->
                  IF \E t \in removed_tables : BaseName(t) = k
                  THEN 0 ELSE cdc_enabled_tables[k]]
    /\ UNCHANGED <<status, full_load_completed_tables, exec, texec, queue, wk, thr,
                   ctl, srcVars, faults, dstVars>>
    /\ UNCHANGED libVars

InitUpdate ==
    /\ NoLibraryCall
    /\ sw = NewStandaloneWorker
    /\ cdc_enabled_tables = [k \in BaseNames |-> 0]
    /\ exec = <<>>
    /\ texec = <<>>
    /\ wk = [w \in Workers |-> IdleWorker]
    /\ thr = [t \in TableNames |-> IdleThread]
    /\ dest = [t \in TableNames |-> 0]
    /\ cleanups = [t \in TableNames |-> 0]
    /\ delivered = {}
    /\ NoChangeLog
    /\ status = "created"
    /\ queue = EmptyQueue
    /\ ctl = 1
    /\ cfg \in CdcCfgs
    /\ full_load_completed_tables \in SUBSET Range(cfg.source_tables)
    /\ srcRows = [t \in TableNames |-> 1]
    /\ srcMut = 0
    /\ faults = 0

NextUpdate ==
    \/ ControlStart
    \/ \E t \in TableNames : SourceCommit(t)
    \/ \E ts \in UpdateLists : UpdateTask(ts)
    \/ \E w \in Workers :
          \/ StartTask(w)
          \/ PollBegin(w)
          \/ PollFinish(w)
          \/ CdcTable(w)
          \/ CdcWrite(w)
          \/ CdcPersist(w)

SpecUpdate == InitUpdate /\ [][NextUpdate]_vars

\* C20: an update that removes tables from source_tables removes their
\* cursor from the CDC state and their entry from
\* full_load_completed_tables, and leaves both as they are for every table
\* that stays in source_tables.
C20_RemovedTablesAreForgotten ==
    [][\A ts \in UpdateLists :
          UpdateTask(ts) =>
             /\ \A t \in Range(cfg.source_tables) \ Range(ts) :
                   /\ cdc_enabled_tables'[CursorKey(t)] = 0
                   /\ t \notin full_load_completed_tables'
             /\ \A t \in Range(cfg.source_tables) \cap Range(ts) :
                   /\ cdc_enabled_tables'[CursorKey(t)] = cdc_enabled_tables[CursorKey(t)]
                   /\ (t \in full_load_completed_tables')
                         <=> (t \in full_load_completed_tables)]_vars

(***************************************************************************)
(* The outcome of a poll.                                                  *)
(***************************************************************************)
\* the TableExecution rows of execution e that have status st
RowsOf(e, st) == {i \in 1..Len(texec) : texec[i].eid = e /\ texec[i].status = st}

\* C21: a poll in which at least one table synced and at least one table
\* failed ends with TaskExecution status partial_success; a poll in which
\* every table synced ends with success.
C21_PartialSuccess ==
    [][\A w \in Workers :
          PollFinish(w) =>
             /\ (RowsOf(wk[w].eid, "success") # {} /\ RowsOf(wk[w].eid, "failed") # {})
                   => exec'[wk[w].eid].status = "partial_success"
             /\ (Cardinality(RowsOf(wk[w].eid, "success")) = Len(cfg.source_tables))
                   => exec'[wk[w].eid].status = "success"]_vars

(***************************************************************************)
(* SpecResolve: one resolver instance at a time resolves templates while   *)
(* the clock advances, the queried database changes its answer and the     *)
(* application database session fails and recovers.  The task is idle.     *)
(***************************************************************************)
MaxResolves == 2    \* resolve() calls on one resolver instance

taskVars == <<cfg, status, full_load_completed_tables, cdc_enabled_tables, exec, texec,
              queue, wk, thr, ctl, srcRows, srcMut, faults, dest, cleanups, maxLsn,
              changes, delivered>>

DbAnswers == {"42", "43", "null", "norow", "error"}
ContextTables == {<<"Orders">>, <<>>}

\* path = resolver.resolve(path)
Resolve(id) ==
    /\ resolver.calls < MaxResolves
    /\ LET r == resolve(Template(id), resolver, uuids)
       IN  /\ r.u <= MaxUuids
           /\ resolver' = [r.st EXCEPT !.calls = @ + 1]
           /\ uuids' = r.u
           /\ resolved' = [resolved EXCEPT ![id] =
                 [kind |-> IF r.raised THEN "raised" ELSE "str", v |-> r.v,
                  n |-> resolved[id].n + 1]]
    /\ UNCHANGED <<now, dbrow, sessionOk, taskVars, fnVars>>

\* resolver = VariableResolver(...): a new instance, for a table
NewInstance(table_name) ==
    /\ resolver # NewResolver(table_name)
    /\ resolver' = NewResolver(table_name)
    /\ resolved' = NoneResolved
    /\ UNCHANGED <<now, dbrow, sessionOk, uuids, taskVars, fnVars>>

Tick ==
    /\ now < MaxClock
    /\ now' = now + 1
    /\ UNCHANGED <<resolver, dbrow, sessionOk, uuids, resolved, taskVars, fnVars>>

DbAnswer(a) ==
    /\ a # dbrow
    /\ dbrow' = a
    /\ UNCHANGED <<resolver, now, sessionOk, uuids, resolved, taskVars, fnVars>>

SessionChange ==
    /\ sessionOk' = ~sessionOk
    /\ UNCHANGED <<resolver, now, dbrow, uuids, resolved, taskVars, fnVars>>

\* a created task that is not run
IdleTask ==
    /\ IdleStore
    /\ NoChangeLog
    /\ status = "created"
    /\ queue = EmptyQueue
    /\ ctl = 0
    /\ cfg = BaseCfg
    /\ srcRows = [t \in TableNames |-> 1]
    /\ srcMut = 0
    /\ faults = 0

InitResolve == IdleTask /\ NoLibraryCall

NextResolve ==
    \/ \E id \in TemplateIds : Resolve(id)
    \/ \E tn \in ContextTables : NewInstance(tn)
    \/ Tick
    \/ \E a \in DbAnswers : DbAnswer(a)
    \/ SessionChange

SpecResolve == InitResolve /\ [][NextResolve]_vars

\* the template contains a $timestamp or $uuid token
Dynamic(id) ==
    \E i \in 1..Len(Template(id)) :
       Template(id)[i].tok /\ Template(id)[i].s \in {"timestamp", "uuid"}

\* the step is a resolve() of the template: only Resolve(id) counts one up
Resolved(id) == resolved'[id].n = resolved[id].n + 1

Fails(id) ==
    \/ id \in {"missing", "badtype", "Timestamp"}
    \/ id = "table" /\ resolver.table_name = <<>>
    \/ id = "tenant" /\ ~resolver.cache["tenant"].hit /\ dbrow \in {"error", "norow"}

\* C23: a variable whose resolution fails is replaced by the literal
\* "unknown", and resolve() never raises.
C23_FailureYieldsUnknown ==
    [][\A id \in TemplateIds :
          Resolved(id) =>
             /\ resolved'[id].kind = "str"
             /\ Fails(id) => resolved'[id].v = Unknown]_vars

(***************************************************************************)
(* SpecQuery: _resolve_db_query builds the query and the parameters of a   *)
(* db_query variable whose identifiers, operators and values are hostile.  *)
(***************************************************************************)
MaxConditions == 2     \* where_conditions of one variable

OperatorInputs == {"=", "LIKE", "IN", "like", "OR 1=1 --"}
ValueInputs == {<<"x">>, <<"x", ",", "'", ";">>, <<"'", " ", "O", "R", " ", "1">>}

ConditionInputs ==
    [field : {<<"a", "_", "1">>, <<"a", "]", ";", "-", "-">>},
     operator : OperatorInputs, value : ValueInputs]

\* the sequences over S of length at most n
SeqsUpTo(S, n) == UNION {[1..k -> S] : k \in 0..n}

InitQuery ==
    /\ IdleTask
    /\ NewResolverOnly
    /\ s3obj = NoObject
    /\ meta = NoMeta
    /\ dbq \in [schema : {<<"a", "_", "1">>, <<"a", "]", ";", "-", "-">>},
                table : {<<"a", "_", "1">>, <<"'", " ", "1">>},
                column : {<<"a", "]", ";", "-", "-">>, <<"'", " ", "1">>},
                where_conditions : SeqsUpTo(ConditionInputs, MaxConditions),
                built : {FALSE}, query : {<<>>}, params : {<<>>}]

\* query = self._build_safe_query(...); params = self._build_query_params(...)
BuildQuery ==
    /\ ~dbq.built
    /\ dbq' = [dbq EXCEPT
                 !.built = TRUE,
                 !.query = build_safe_query(dbq.schema, dbq.table, dbq.column,
                                            dbq.where_conditions),
                 !.params = build_query_params(dbq.where_conditions, 1)]
    /\ UNCHANGED <<taskVars, resolverVars, s3obj, meta, sw>>

NextQuery == BuildQuery

SpecQuery == InitQuery /\ [][NextQuery]_vars

\* the fragments _build_safe_query writes itself
Fragments == {"SELECT ", " FROM ", ".", " WHERE ", " AND ", " IN (", ")", "?", ",", " ",
              "[", "]"}

\* the conditions with every value replaced by one of as many items that
\* shares no character with it
Scrubbed(where_conditions) ==
    [i \in 1..Len(where_conditions) |->
        [where_conditions[i] EXCEPT
            !.value = [j \in 1..(2 * Items(@) - 1) |-> IF j % 2 = 0 THEN "," ELSE "z"]]]

\* the i-th piece of the text is inside a bracket-quoted identifier
Quoted(text, i) ==
    \E j \in 1..(i - 1), k \in (i + 1)..Len(text) :
       /\ text[j] = "[" /\ text[k] = "]"
       /\ \A m \in (j + 1)..(k - 1) : text[m] \in WordChars

\* C24: in the query built for a db_query variable the values appear only as
\* ? placeholders bound to the parameters, every identifier is reduced to
\* word characters inside square brackets, and every operator is one of the
\* allowed ones, any other being replaced by =.
C24_QueryIsParameterized ==
    dbq.built =>
       /\ dbq.query = build_safe_query(dbq.schema, dbq.table, dbq.column,
                                       Scrubbed(dbq.where_conditions))
       /\ \A i \in 1..Len(dbq.query) :
             \/ dbq.query[i] \in Fragments \cup allowed_operators
             \/ dbq.query[i] \in WordChars /\ Quoted(dbq.query, i)
       /\ \A i \in 1..Len(dbq.where_conditions) :
             dbq.where_conditions[i].operator \notin allowed_operators
                => where_clause(dbq.where_conditions[i])
                     = where_clause([dbq.where_conditions[i] EXCEPT !.operator = "="])
       /\ Len(dbq.params) = Cardinality({i \in 1..Len(dbq.query) : dbq.query[i] = "?"})
       /\ \A i \in 1..Len(dbq.where_conditions) :
             dbq.where_conditions[i].operator # "IN"
                => \E j \in 1..Len(dbq.params) :
                      dbq.params[j] = dbq.where_conditions[i].value

\* a query has been built from hostile identifiers, an operator that is not
\* allowed and a value holding a quote
C24_Witness ==
    /\ dbq.built
    /\ dbq.table = <<"'", " ", "1">>
    /\ Len(dbq.where_conditions) = 2
    /\ dbq.where_conditions[1].operator = "OR 1=1 --"
    /\ dbq.where_conditions[2].operator = "IN"
    /\ dbq.where_conditions[2].value = <<"x", ",", "'", ";">>
    /\ dbq.where_conditions[1].value = <<"'", " ", "O", "R", " ", "1">>

(***************************************************************************)
(* connectors/s3.py S3Connector.write_data: the object key.  SpecKey: the  *)
(* connector writes batches under path templates while the clock advances  *)
(* and the queried database changes its answer.                            *)
(***************************************************************************)
PathTemplateIds == {"scenario", "path", "file", "dotted", "date"}
FileFormats == {"parquet", "csv", "json"}
valid_extensions == {"parquet", "csv", "json", "txt", "avro", "orc"}

\* resolved_path.rsplit('/', 1): the index of the last "/", 0 if there is none
LastSlash(path) ==
    IF \E i \in 1..Len(path) : path[i] = "/"
    THEN CHOOSE i \in 1..Len(path) :
            path[i] = "/" /\ \A j \in (i + 1)..Len(path) : path[j] # "/"
    ELSE 0

\* any(filename_pattern.lower().endswith(ext) for ext in valid_extensions)
has_extension(filename) ==
    /\ Len(filename) >= 2
    /\ filename[Len(filename) - 1] = "."
    /\ filename[Len(filename)] \in valid_extensions

\* file_key of write_data for a connector with a path template
file_key(resolved_path, format_to_use, timestamp) ==
    LET k == LastSlash(resolved_path)
        base_path == SubSeq(resolved_path, 1, k - 1)
        filename_pattern == SubSeq(resolved_path, k + 1, Len(resolved_path))
        in_directory == resolved_path \o <<"/", "data_">> \o timestamp
                           \o <<".", format_to_use>>
    IN  IF k = 0 THEN in_directory
        ELSE IF \E i \in 1..Len(filename_pattern) : filename_pattern[i] \in {".", "$"}
        THEN (IF has_extension(filename_pattern)
              THEN base_path \o <<"/">> \o filename_pattern
              ELSE base_path \o <<"/">> \o filename_pattern \o <<".", format_to_use>>)
        ELSE in_directory

\* write_data(data, table_name, file_format=...): resolve_path_template makes
\* a resolver of its own, then the key is formed
WriteData(id, file_format, table_name) ==
    /\ LET r == resolve(Template(id), NewResolver(table_name), uuids)
       IN  /\ ~r.raised
           /\ s3obj' = [written |-> TRUE, template |-> id, file_format |-> file_format,
                        resolved_path |-> r.v,
                        key |-> file_key(r.v, file_format, Timestamp(now))]
    /\ UNCHANGED <<taskVars, resolverVars, dbq, meta, sw>>

InitKey == IdleTask /\ NoLibraryCall

NextKey ==
    \/ \E id \in PathTemplateIds, f \in FileFormats, tn \in ContextTables :
          WriteData(id, f, tn)
    \/ Tick
    \/ \E a \in DbAnswers : DbAnswer(a)

SpecKey == InitKey /\ [][NextKey]_vars

\* the last component of the path ends in a recognised extension
EndsInExtension(path) ==
    has_extension(SubSeq(path, LastSlash(path) + 1, Len(path)))

\* C25: the object key is the resolved path itself when its last component
\* ends in a recognised extension, and the resolved path followed by
\* "." and the file format otherwise; no path segment is added.  Stated for
\* resolved paths that have a directory component.
C25_KeyIsResolvedPath ==
    (s3obj.written /\ LastSlash(s3obj.resolved_path) # 0) =>
        s3obj.key = IF EndsInExtension(s3obj.resolved_path) THEN s3obj.resolved_path
                    ELSE s3obj.resolved_path \o <<".", s3obj.file_format>>

(***************************************************************************)
(* Schema drift: the preparation of the destination table in the full      *)
(* load, TransferService._handle_schema_drift and the connectors'          *)
(* handle_schema_drift.  A schema maps each column name to its type,       *)
(* "none" for a column the table does not have.  SpecDrift: tables whose   *)
(* source and destination schemas differ in any way are prepared by the    *)
(* sequential and by the parallel full load.                               *)
(***************************************************************************)
ColumnTypes == {"int", "text"}
Schemas == [ColumnNames -> ColumnTypes \cup {"none"}]
DestConnectors == {"s3", "snowflake"}
Paths == {"sequential", "parallel"}

Columns(schema) == {c \in ColumnNames : schema[c] # "none"}

\* dest_connector.table_exists: S3 lists the objects under the literal
\* prefix, which holds none when the path is a template
table_exists ==
    /\ Columns(meta.dest_schema) # {}
    /\ ~(meta.connector = "s3" /\ meta.templated)

\* S3Connector.get_table_schema: the columns of _metadata.json under the
\* literal prefix, [] when the object cannot be read
S3GetTableSchema(ok) ==
    IF ok /\ ~meta.templated THEN meta.dest_schema ELSE NoColumns

\* S3Connector.handle_schema_drift followed by create_table_if_not_exists:
\* the metadata is rewritten as the schema read plus the new columns
S3HandleSchemaDrift(new_columns, ok) ==
    LET current_schema == S3GetTableSchema(ok)
    IN  [c \in ColumnNames |->
            IF current_schema[c] # "none" THEN current_schema[c]
            ELSE IF c \in new_columns THEN meta.source_schema[c]
            ELSE "none"]

\* SnowflakeConnector.handle_schema_drift: ALTER TABLE ... ADD COLUMN
SnowflakeHandleSchemaDrift(new_columns) ==
    [c \in ColumnNames |->
        IF c \in new_columns /\ meta.dest_schema[c] = "none"
        THEN meta.source_schema[c] ELSE meta.dest_schema[c]]

\* TransferService._handle_schema_drift: the destination's columns after it.
\* col['column_name'] raises KeyError on the rows of Snowflake's
\* get_table_schema, whose key is COLUMN_NAME; the error is logged
handle_schema_drift(ok1, ok2) ==
    IF meta.connector = "snowflake"
    THEN (IF Columns(meta.dest_schema) # {} THEN meta.dest_schema
          ELSE SnowflakeHandleSchemaDrift(Columns(meta.source_schema)))
    ELSE LET dest_columns == Columns(S3GetTableSchema(ok1))
             new_columns == Columns(meta.source_schema) \ dest_columns
         IN  IF new_columns # {} THEN S3HandleSchemaDrift(new_columns, ok2)
             ELSE meta.dest_schema

\* the table preparation of _execute_full_load_sequential and of
\* _process_single_table_thread, which has no drift branch
PrepareTable(path) ==
    /\ \E ok1, ok2 \in BOOLEAN :
          meta' = [meta EXCEPT !.dest_schema =
                      IF ~table_exists THEN meta.source_schema
                      ELSE IF path = "sequential" /\ meta.handle_schema_drift
                      THEN handle_schema_drift(ok1, ok2)
                      ELSE @,
                                !.prepared = path,
                                !.before = meta.dest_schema]
    /\ UNCHANGED <<taskVars, resolverVars, dbq, s3obj, sw>>

\* the source table is altered
SourceAlter(schema) ==
    /\ Columns(schema) # {}
    /\ schema # meta.source_schema
    /\ meta' = [meta EXCEPT !.source_schema = schema, !.prepared = "none",
                            !.before = NoColumns]
    /\ UNCHANGED <<taskVars, resolverVars, dbq, s3obj, sw>>

InitDrift ==
    /\ IdleTask
    /\ NewResolverOnly
    /\ dbq = NoQuery
    /\ s3obj = NoObject
    /\ meta \in [source_schema : {sc \in Schemas : Columns(sc) # {}},
                 dest_schema : {NoColumns}, connector : DestConnectors,
                 handle_schema_drift : BOOLEAN, templated : BOOLEAN,
                 prepared : {"none"}, before : {NoColumns}]

NextDrift ==
    \/ \E path \in Paths : PrepareTable(path)
    \/ \E schema \in Schemas : SourceAlter(schema)

SpecDrift == InitDrift /\ [][NextDrift]_vars

\* C26: schema drift is add-only.  When a full load, sequential or parallel,
\* has prepared a table whose destination recorded columns and the task
\* handles schema drift, the destination has every column of the source, and
\* every column it had before with the type it had.
C26_DriftIsAddOnly ==
    (meta.prepared # "none" /\ Columns(meta.before) # {} /\ meta.handle_schema_drift)
       => /\ Columns(meta.source_schema) \subseteq Columns(meta.dest_schema)
          /\ \A c \in Columns(meta.before) : meta.dest_schema[c] = meta.before[c]

(***************************************************************************)
(* The order of the sequential table loop.                                 *)
(***************************************************************************)
\* the TableExecution rows of execution e
TableRows(e) == {i \in 1..Len(texec) : texec[i].eid = e}

\* table t has been attempted in execution e: its TableExecution row exists
Attempted(e, t) == \E i \in TableRows(e) : texec[i].table_name = t

\* the tables declared after position k
LaterTables(k) == {cfg.source_tables[j] : j \in (k + 1)..Len(cfg.source_tables)}

\* the exception on its way to execute_task names table t
NamesTable(m, t) ==
    \E n \in 1..(MaxRetries + 1), cause \in {"source error", "write error", StoppedMsg} :
       m = TableFailedAfter(t, n, cause)

\* execute_task handles the failure of worker w in this step
FailureHandled(w) == FailurePropagated(w) /\ wk'[w].pc = "idle" /\ ~wk[w].revoked

(***************************************************************************)
(* SpecSeq: one sequential full load of three one-row tables from a source *)
(* that does not change, under every retry setting; the caller may stop    *)
(* the task and connector calls may fail.                                  *)
(***************************************************************************)
InitSeq ==
    /\ InitStore
    /\ NoChangeLog
    /\ status = "running"
    /\ queue = Enq(EmptyQueue, "execute_task")
    /\ ctl = 1
    /\ \E p \in RetryPolicies :
          cfg = WithRetryPolicy([BaseCfg EXCEPT !.source_tables = <<DboA, DboB, DboC>>], p)
    /\ srcRows = [t \in TableNames |-> 1]
    /\ srcMut = 0
    /\ faults = MaxFaults

NextSeq ==
    \/ ControlStop
    \/ \E w \in Workers :
          \/ StopTask(w)
          \/ Revoked(w)
          \/ ExecuteTask(w)
          \/ Sequential(w)

SpecSeq == InitSeq /\ [][NextSeq]_vars

\* C27: the sequential path takes the tables in declared order, one at a
\* time: a table is attempted only after every table declared before it
\* succeeded.  When the attempts of a table are exhausted no later table has
\* been or is attempted, the error names the failing table, and handling it
\* marks the TaskExecution failed with that error and the task failed.
C27_SequentialStopsAtFirstFailure ==
    [][/\ \A i \in 1..Len(texec'), j \in 1..Len(texec') :
             (/\ cfg.parallel_tables = 1
              /\ texec'[i].eid = texec'[j].eid
              /\ IndexOf(texec'[i].table_name) < IndexOf(texec'[j].table_name))
                => i < j /\ texec'[i].status = "success"
       /\ \A w \in Workers :
             /\ (wk[w].ti # 0 /\ wk'[w].ti # 0 /\ wk'[w].ti # wk[w].ti)
                   => /\ wk'[w].ti = wk[w].ti + 1
                      /\ wk[w].te # 0 /\ texec'[wk[w].te].status = "success"
             /\ FailurePropagated(w)' =>
                   /\ NamesTable(wk'[w].exc.msg, cfg.source_tables[wk'[w].ti])
                   /\ \A i \in 1..Len(texec') :
                         texec'[i].eid = wk'[w].eid
                            => texec'[i].table_name \notin LaterTables(wk'[w].ti)
             /\ FailureHandled(w) =>
                   /\ exec'[wk[w].eid].status = "failed"
                   /\ NamesTable(exec'[wk[w].eid].error_message, SourceTable(w))
                   /\ status' = "failed"]_vars

\* the attempts of the first of two tables are exhausted and the failure has
\* been handled: the execution is failed and the second table has no row
C27_Witness ==
    \E e \in 1..Len(exec) :
       /\ exec[e].status = "failed"
       /\ NamesTable(exec[e].error_message, DboA)
       /\ Attempted(e, DboA)
       /\ \A w \in Workers : wk[w].pc = "idle"

(***************************************************************************)
(* The pool after a failure of the parallel path.                          *)
(***************************************************************************)
\* the main thread has observed a failed or stopped table and is leaving the
\* with block of the pool
FailureObserved(w) == wk[w].pc = "par_exit"

\* a pool thread takes up table t in this step: the step before its
\* TableExecution row and its first read
ThreadAttempts(t) == thr[t].pc = "pending" /\ thr'[t].pc = "t_prepare"

\* C28: in the parallel path, once the main thread has observed a fatal table
\* failure or a stop, no table whose work had not started is taken up by a
\* pool thread, so no TableExecution is created and no read is issued for it.
C28_PendingTablesNotAttempted ==
    [][\A w \in Workers :
          FailureObserved(w) => \A t \in Range(cfg.source_tables) : ~ThreadAttempts(t)]_vars

(***************************************************************************)
(* SpecBatch: one sequential full load of one table of a source that does  *)
(* not change, for every row count and batch size up to the bounds, with   *)
(* and without a row filter among the transformations, under every retry   *)
(* setting; the caller may stop the task and connector calls may fail.     *)
(***************************************************************************)
BatchCfgs ==
    {WithRetryPolicy([BaseCfg EXCEPT !.batch_rows = b, !.filter_rows = fr], p) :
        b \in 1..MaxRows, fr \in BOOLEAN, p \in RetryPolicies}

InitBatch ==
    /\ InitStore
    /\ NoChangeLog
    /\ status = "running"
    /\ queue = Enq(EmptyQueue, "execute_task")
    /\ ctl = 1
    /\ cfg \in BatchCfgs
    /\ \E n \in 0..(MaxRows + 1) :
          srcRows = [t \in TableNames |-> IF t = DboA THEN n ELSE 0]
    /\ srcMut = 0
    /\ faults = MaxFaults

SpecBatch == InitBatch /\ [][NextSeq]_vars

\* ceil(n / b)
CeilDiv(n, b) == (n + b - 1) \div b

\* worker w gets a batch from read_data in this step
BatchRead(w) == wk[w].pc = "seq_read" /\ wk'[w].reads = wk[w].reads + 1

\* worker w marks its table success in this step
TableSucceeds(w) == wk[w].pc = "seq_success" /\ wk'[w].pc = "seq_table"

\* C29: for a source table of N rows that does not change and batch_rows = b,
\* the attempt that loads the table reads at offsets 0, b, 2b, ..., each read
\* after the write of the batch before it, and ends after exactly ceil(N/b)
\* reads and as many writes with processed_rows = N and status success.
C29_BatchesInOffsetOrder ==
    [][\A w \in Workers :
          /\ BatchRead(w) =>
                /\ wk[w].offset = wk[w].reads * cfg.batch_rows
                /\ wk[w].writes = wk[w].reads
          /\ TableSucceeds(w) =>
                LET N == srcRows[SourceTable(w)]
                IN  /\ wk[w].reads = CeilDiv(N, cfg.batch_rows)
                    /\ wk[w].writes = wk[w].reads
                    /\ texec'[wk[w].te].processed_rows = N
                    /\ texec'[wk[w].te].status = "success"]_vars

(***************************************************************************)
(* SpecOverride: one run of a task whose table_configs hold an entry for   *)
(* dbo.B, enabled or not, with or without transformations of its own: a    *)
(* sequential full load of two tables, a parallel full load of three on a  *)
(* pool of two, or a CDC sync of two tables of which dbo.B has one         *)
(* captured change.  The caller may stop the task and one connector call   *)
(* may fail.                                                               *)
(***************************************************************************)
TableConfigs ==
    {[t \in {DboB} |-> o] :
        o \in [enabled : BOOLEAN, transformations : {"none", "keep", "filter"}]}

OverrideCfgs ==
    {[c EXCEPT !.table_configs = tc] :
        c \in {[BaseCfg EXCEPT !.source_tables = <<DboA, DboB>>],
               [BaseCfg EXCEPT !.source_tables = <<DboA, DboB, DboC>>,
                               !.parallel_tables = 2],
               [BaseCfg EXCEPT !.source_tables = <<DboA, DboB>>, !.mode = "cdc"]},
        tc \in TableConfigs}

InitOverride ==
    /\ InitStore
    /\ status = "running"
    /\ queue = Enq(EmptyQueue, "execute_task")
    /\ ctl = 1
    /\ cfg \in OverrideCfgs
    /\ srcRows = [t \in TableNames |-> 1]
    /\ srcMut = 0
    /\ faults = 1
    /\ maxLsn = MinLsn + 1
    /\ changes = {[table |-> DboB, lsn |-> MinLsn + 1]}

NextOverride ==
    \/ ControlStop
    \/ \E w \in Workers :
          \/ StopTask(w)
          \/ Revoked(w)
          \/ ExecuteTask(w)
          \/ Sequential(w)
          \/ Parallel(w)
          \/ CdcSync(w)
    \/ \E w \in Workers, t \in TableNames : TableThread(w, t)

SpecOverride == InitOverride /\ [][NextOverride]_vars

\* the tables whose table_configs entry has enabled = false
DisabledTables ==
    {t \in DOMAIN cfg.table_configs : ~cfg.table_configs[t].enabled}

\* the name a TableExecution of table t carries in the task's mode
RowName(t) == IF cfg.mode = "cdc" THEN BaseName(t) ELSE t

\* C30: a table whose table_configs entry has enabled = false is skipped by
\* the sequential path, the parallel path and the CDC sync: it gets no
\* TableExecution, nothing is read from it and nothing of it is written.
C30_DisabledTableIsSkipped ==
    [][\A t \in DisabledTables :
          /\ \A i \in 1..Len(texec') : texec'[i].table_name # RowName(t)
          /\ \A w \in Workers :
                (wk[w].ti \in 1..Len(cfg.source_tables) /\ SourceTable(w) = t)
                    => ~ReadIssued(w) /\ wk'[w].pc # "cdc_write"
          /\ ~ThreadReadIssued(t)
          /\ dest'[t] = 0
          /\ \A c \in delivered' : c.table # t]_vars

(***************************************************************************)
(* The resolver cache.                                                     *)
(***************************************************************************)
\* the built-in variables _resolve_variable computes from the clock or draws
BuiltinDynamic == {"timestamp", "date", "uuid"}

\* the same resolver instance takes the step
SameInstance == resolver'.calls >= resolver.calls

\* C31: within one resolver instance $timestamp, $date and $uuid are never
\* stored in the cache and a resolve() of $date returns the date of the
\* moment of the call, while the cached value of any other variable, once
\* there, is the one every later resolve() uses: it never changes.
C31_DynamicNeverCached ==
    [][/\ \A n \in BuiltinDynamic : ~resolver'.cache[n].hit
       /\ (Resolved("date") /\ resolved'["date"].kind = "str")
             => resolved'["date"].v = <<"day=">> \o Date(now)
       /\ \A n \in VarNames \ BuiltinDynamic :
             (SameInstance /\ resolver.cache[n].hit)
                 => resolver'.cache[n] = resolver.cache[n]]_vars

(***************************************************************************)
(* A full_load_then_cdc run with nothing left to load.                     *)
(***************************************************************************)
\* worker w begins an execute_task run of a full_load_then_cdc task all of
\* whose tables are recorded as fully loaded
BeginsWithAllLoaded(w) ==
    /\ cfg.mode = "full_load_then_cdc"
    /\ TablesNeedingFullLoad = {}
    /\ wk[w].pc = "idle"
    /\ wk'[w].kind = "execute_task"

\* worker w enters TransferService.execute_full_load
FullLoadStarted(w) == wk[w].pc \in {"seq_table", "par_submit"}

\* C32: a run of a full_load_then_cdc task whose tables have all completed
\* their full load performs no full load, does not fail, and with a
\* continuous or interval schedule dispatches the CDC polling; no execution
\* of such a task is recorded as failed.
C32_AllLoadedHandsOffToCdc ==
    [][/\ \A w \in Workers :
             BeginsWithAllLoaded(w) =>
                /\ wk'[w].pc # "et_failed"
                /\ ~FullLoadStarted(w)'
                /\ cfg.schedule_type \in {"continuous", "interval"}
                      => queue'["execute_cdc_polling"] = queue["execute_cdc_polling"] + 1
       /\ (cfg.mode = "full_load_then_cdc" /\ TablesNeedingFullLoad = {})
             => /\ status' # "failed"
                /\ \A e \in 1..Len(exec') : exec'[e].status # "failed"]_vars

(***************************************************************************)
(* The cursors of two tables of one task.                                  *)
(***************************************************************************)
\* the persisted cursor the task holds for table t
Cursor(t) == cdc_enabled_tables[CursorKey(t)]

\* the step writes the CDC state on behalf of table t: the final write of a
\* poll in which t's write step completed, or an update that removes t
WritesCursorOf(t) ==
    \/ \E w \in Workers : wk[w].pc = "cdc_persist" /\ wk[w].adv[t] >= 0
                           /\ cdc_enabled_tables' = wk[w].cdc
    \/ t \in Range(cfg.source_tables) \ Range(cfg'.source_tables)

\* worker w reads the changes of its current table in this step
CdcReadIssued(w) == wk[w].pc = "cdc_table" /\ wk'[w].pc = "cdc_write"

\* C33: the cursors of two distinct entries of source_tables are independent:
\* a step that writes the CDC state on behalf of one of them and not of the
\* other leaves the persisted cursor of the other as it was, and a poll reads
\* each table from the cursor persisted for it.
C33_CursorsIndependent ==
    [][/\ \A t \in Range(cfg.source_tables), u \in Range(cfg'.source_tables) :
             (t # u /\ u \in Range(cfg.source_tables)
                    /\ WritesCursorOf(t) /\ ~WritesCursorOf(u))
                 => Cursor(u)' = Cursor(u)
       /\ \A w \in Workers :
             CdcReadIssued(w)
                 => wk[w].cdc[CursorKey(SourceTable(w))] = Cursor(SourceTable(w))]_vars

(***************************************************************************)
(* The connections of an executor.                                         *)
(***************************************************************************)
\* the worker has left the transfer service: its result or exception is
\* with execute_task or execute_cdc_polling
ExecutorExited(w) ==
    wk[w].pc \in {"et_success", "et_interrupted", "et_failed", "poll_finish", "poll_except"}

\* C34: when an executor has exited (the sequential full load or the CDC
\* sync of a worker, the table thread of a pool), on success, table failure,
\* stop or unexpected exception, its source and destination connections are
\* disconnected.
C34_ConnectionsReleased ==
    /\ \A w \in Workers : ExecutorExited(w) => ~wk[w].connected
    /\ \A t \in TableNames : thr[t].pc = "done" => ~thr[t].connected

(***************************************************************************)
(* SpecRows: the life of the TableExecution rows.  One executor is queued  *)
(* for a task of two tables: a sequential full load with one retry, a      *)
(* two-thread pool, or a CDC sync at a source where enabling CDC on a      *)
(* table may fail.  A connector call may fail once and the caller may      *)
(* request one stop.                                                       *)
(***************************************************************************)
RowCfgs ==
    {[BaseCfg EXCEPT !.source_tables = <<DboA, DboB>>,
                     !.retry_enabled = TRUE, !.max_retries = 1],
     [BaseCfg EXCEPT !.source_tables = <<DboA, DboB>>, !.parallel_tables = 2],
     [BaseCfg EXCEPT !.source_tables = <<DboA, DboB>>, !.mode = "cdc",
                     !.cdc_enable_fails = TRUE]}

InitRows ==
    /\ InitStore
    /\ status = "running"
    /\ queue = Enq(EmptyQueue, "execute_task")
    /\ ctl = 1
    /\ cfg \in RowCfgs
    /\ srcRows = [t \in TableNames |-> 1]
    /\ srcMut = 0
    /\ faults = 1
    /\ maxLsn = MinLsn + 1
    /\ changes = {[table |-> DboB, lsn |-> MinLsn + 1]}

SpecRows == InitRows /\ [][NextOverride]_vars

\* the status changes a TableExecution row may make
RowStep(old, new) ==
    \/ old.status = new.status
    \/ old.status = "pending" /\ new.status = "running"
    \/ old.status = "running" /\ new.status \in {"success", "failed", "stopped"}
    \/ /\ old.status = "failed" /\ new.status = "running"
       /\ new.retry_count = old.retry_count + 1

\* the execution has ended: its worker has left the transfer service or the
\* TaskExecution row carries a final status
ExecutionEnded(e) ==
    \/ exec[e].status \in Terminal
    \/ \E w \in Workers : wk[w].eid = e /\ ExecutorExited(w)

\* C35: every TableExecution follows pending -> running -> (success | failed
\* | stopped), with failed -> running only on an in-place retry, and once the
\* owning execution has ended none of its rows is left in status running.
C35_TableExecutionLifecycle ==
    [][/\ Len(texec') >= Len(texec)
       /\ \A i \in 1..Len(texec) : RowStep(texec[i], texec'[i])
       /\ \A i \in (Len(texec) + 1)..Len(texec') :
             texec'[i].status \in {"pending", "running"}
       /\ \A e \in 1..MaxExecutions :
             (e <= Len(exec') /\ ExecutionEnded(e)')
                 => \A i \in 1..Len(texec') :
                       texec'[i].eid = e => texec'[i].status # "running"]_vars

(***************************************************************************)
(* The stop request against a running executor.                            *)
(***************************************************************************)
\* C36: a stop is never lost.  Once the task status is stopped no step of an
\* executor (the progress update that writes running, the completion step
\* that writes completed, the failure handler that writes failed) overwrites
\* it: the status stays stopped until the next start request.
C36_StopIsNeverLost ==
    [][status = "stopped" => (status' = "stopped" \/ ControlStart)]_vars

(***************************************************************************)
(* SpecChain: the polling chain of a CDC task with a continuous or         *)
(* interval schedule.  The caller starts the task only when it is stopped  *)
(* or freshly created with nothing queued, and may stop it at any time; a  *)
(* connector call may fail once.                                           *)
(***************************************************************************)
ChainCfgs ==
    {[BaseCfg EXCEPT !.mode = "cdc", !.schedule_type = s,
                     !.schedule_interval_seconds = IF s = "interval" THEN 1 ELSE 0] :
        s \in {"continuous", "interval"}}

InitChain ==
    /\ InitStore
    /\ status = "created"
    /\ queue = EmptyQueue
    /\ ctl = MaxControl
    /\ cfg \in ChainCfgs
    /\ srcRows = [t \in TableNames |-> 1]
    /\ srcMut = 0
    /\ faults = 1
    /\ maxLsn = MinLsn + 1
    /\ changes = {[table |-> DboA, lsn |-> MinLsn + 1]}

\* execute_cdc_polling whose execute_cdc_sync cannot connect: the execution
\* row exists, connect() raises and the outer handler of the sync re-raises
PollConnectFails(w) ==
    /\ Take(w, "execute_cdc_polling")
    /\ status = "running"
    /\ faults > 0
    /\ Len(exec) < MaxExecutions
    /\ queue' = Deq(queue, "execute_cdc_polling")
    /\ exec' = Append(exec, NewExecution("cdc_sync"))
    /\ faults' = faults - 1
    /\ wk' = [wk EXCEPT ![w] =
          [IdleWorker EXCEPT !.kind = "execute_cdc_polling",
                             !.eid = Len(exec) + 1,
                             !.pc = "poll_except",
                             !.exc = Error("connect error")]]
    /\ UNCHANGED <<cfg, status, full_load_completed_tables, cdc_enabled_tables, texec,
                   thr, ctl, srcVars, dstVars>>
    /\ UNCHANGED libVars

\* a start request for a task that is not running and has no start pending
StartWhenNotRunning ==
    /\ status = "stopped" \/ (status = "created" /\ queue = EmptyQueue)
    /\ ControlStart

NextChain ==
    \/ StartWhenNotRunning
    \/ ControlStop
    \/ \E w \in Workers :
          \/ StartTask(w)
          \/ StopTask(w)
          \/ Revoked(w)
          \/ CdcSync(w)
          \/ Polling(w)
          \/ PollConnectFails(w)

SpecChain == InitChain /\ [][NextChain]_vars

\* the execute_cdc_polling runs of the task that are queued (delayed or not)
\* or in flight: each of them reschedules itself while the task is running
PollingChains ==
    queue["execute_cdc_polling"]
        + Cardinality({w \in Workers : wk[w].kind = "execute_cdc_polling"})

\* C37: a CDC task with a continuous or interval schedule has at most one
\* polling chain at any time, whatever stop and start requests are issued:
\* no two polls of the task are queued or in flight together.
C37_OnePollingChain ==
    (cfg.mode = "cdc" /\ cfg.schedule_type \in {"continuous", "interval"})
        => PollingChains <= 1

\* the step ends a poll of worker w, by its success tail or by its handler
PollEnds(w) == PollFinish(w) \/ PollExcept(w)

\* C38: while a CDC task with a continuous or interval schedule is running,
\* polling never silently ends.  The step that ends a poll, whether the poll
\* succeeded or raised, schedules a next poll, and the TaskExecution of a poll
\* that raised is left in a terminal status.
C38_PollingNeverSilentlyEnds ==
    [][\A w \in Workers :
          (PollEnds(w) /\ status = "running"
              /\ cfg.schedule_type \in {"continuous", "interval"})
              => /\ queue'["execute_cdc_polling"] = queue["execute_cdc_polling"] + 1
                 /\ exec'[wk[w].eid].status \in Terminal]_vars

(***************************************************************************)
(* SpecWorker: the standalone worker with room for one task thread polls   *)
(* two freshly created tasks.  The polling loop and the task threads       *)
(* interleave at every access of active_tasks.                             *)
(***************************************************************************)
InitWorker == IdleTask /\ NoLibraryCall

NextWorker ==
    \/ poll_tasks
    \/ \E i \in SwThreads : execute_task(i)

SpecWorker == InitWorker /\ [][NextWorker]_vars

LiveThreads == {i \in SwThreads : Alive(i)}

\* C39: in the standalone worker, for any interleaving of the polling loop
\* and the task threads, each task is executed by at most one live thread at
\* a time, the number of live task threads never exceeds max_workers, every
\* live task thread has its entry in active_tasks, and the cleanup of a
\* finishing thread removes no entry but its own.
C39_OneLiveThreadPerTask ==
    /\ \A i, j \in LiveThreads : sw.th[i].task = sw.th[j].task => i = j
    /\ Cardinality(LiveThreads) <= max_workers
    /\ \A i \in LiveThreads : sw.active[sw.th[i].task] = i
    /\ \A i \in SwThreads : sw.th[i].pc = "del" => sw.active[sw.th[i].task] = i

(***************************************************************************)
(* SpecWhere: the query and the parameters of a db_query variable whose    *)
(* WHERE values are literals, comma-separated lists and $variables.        *)
(***************************************************************************)
WhereValueInputs ==
    {<<"x">>, <<"x", ",", "y">>, <<"$", "tableName">>, <<"$", "ids">>, <<"$", "none">>}

WhereConditionInputs ==
    [field : {<<"a", "_", "1">>}, operator : {"=", "IN", "like"},
     value : WhereValueInputs]

InitWhere ==
    /\ IdleTask
    /\ NewResolverOnly
    /\ s3obj = NoObject
    /\ meta = NoMeta
    /\ dbq \in [schema : {<<"a", "_", "1">>}, table : {<<"a", "_", "1">>},
                column : {<<"a", "_", "1">>},
                where_conditions : SeqsUpTo(WhereConditionInputs, MaxConditions),
                built : {FALSE}, query : {<<>>}, params : {<<>>}]

SpecWhere == InitWhere /\ [][NextQuery]_vars

\* the number of ? placeholders of a query text
QuestionMarks(text) == Cardinality({i \in 1..Len(text) : text[i] = "?"})

\* C40: for every where_conditions list the query built by _build_safe_query
\* has as many ? placeholders as _build_query_params builds parameters, in
\* the same order: every condition contributes as many placeholders to its
\* clause as it contributes parameters, IN conditions and $variable values
\* that resolve to a comma-separated list included.
C40_PlaceholdersMatchParameters ==
    dbq.built =>
       /\ QuestionMarks(dbq.query) = Len(dbq.params)
       /\ \A i \in 1..Len(dbq.where_conditions) :
             QuestionMarks(where_clause(dbq.where_conditions[i]))
                = Len(build_query_params(<<dbq.where_conditions[i]>>, 1))

====
